---- MODULE Spec2Model ----
(***************************************************************************)
(* A model of transmission-proxy: the ACL resolver, the Basic credential   *)
(* verifier, the per-method request and response filters of the RPC proxy  *)
(* client, the mediator that drives them, and the session handshake of the *)
(* RPC client library.                                                     *)
(*                                                                         *)
(* Strings the code inspects character by character (paths, tracker URLs)  *)
(* are sequences of one-character strings; strings it only compares are    *)
(* TLA+ strings.  Option<T> is a sequence of length at most one.           *)
(***************************************************************************)
EXTENDS Integers, Sequences, FiniteSets, TLC

VARIABLES
    rules,          \* Config.acl.rules: the ACL rule list, fixed after load
    bind,           \* the path of Args.bind, fixed at start
    enabled,        \* Config.providers.basic.enabled, fixed after load
    verify_cache,   \* BasicAuthProvider.verify_cache: username -> Option<password>
    pc,             \* where the task serving the current HTTP request is
    http,           \* the HTTP request being served
    user,           \* the AuthUser of the request
    acl,            \* Option<index into rules>: the rule Acls::get returned
    request,        \* Option<Request>: the parsed RPC request (filtered, once forwarded)
    sent,           \* the HTTP requests sent upstream while serving the request
    probe,          \* Option<upstream response to the target-set probe>
    upstream,       \* Option<upstream response to the forwarded request>
    response,       \* Option<HTTP response returned to the client>
    auth_called,    \* whether Acls::get called BasicAuthProvider::auth for the request
    state,          \* Client.state of the RPC client library: Option<session id>
    tag,            \* Client.tag of the RPC client library
    cpc,            \* where Client::rpc_call is, or how it returned
    call,           \* Option<MethodCall>: the argument of the running rpc_call
    handshake,      \* Option<response to the bodiless POST of the last rpc_call>
    tasks,          \* the tasks calling BasicAuthProvider::auth: where each is, its arguments, its result
    lock,           \* verify_cache's Mutex: Option<the task holding it>
    trackers,       \* one application of the tracker rule engine: its arguments and its results
    announced       \* history: Option<the session id of the 409 that answered the last forwarded request>

vars == <<rules, bind, enabled, verify_cache, pc, http, user, acl, request, sent, probe,
          upstream, response, auth_called, state, tag, cpc, call, handshake,
          tasks, lock, trackers, announced>>

\* what the command line and the configuration file fix
config_vars == <<rules, bind, enabled>>

\* the variables of the tasks that call the verifier on their own, and of
\* the tracker rule engine applied on its own
auth_vars == <<tasks, lock>>
engine_vars == <<tasks, lock, trackers>>

\* the variables of the RPC client library
client_vars == <<state, tag, cpc, call, handshake>>

----------------------------------------------------------------------------
(* Option<T> *)

None == <<>>
Some(x) == <<x>>
is_some(o) == o /= <<>>
is_none(o) == o = <<>>
unwrap(o) == o[1]

(* Strings as character sequences *)

starts_with(s, p) == Len(p) <= Len(s) /\ SubSeq(s, 1, Len(p)) = p
ends_with(s, p) == Len(p) <= Len(s) /\ SubSeq(s, Len(s) - Len(p) + 1, Len(s)) = p
\* str::strip_suffix(c).unwrap_or(s)
strip_suffix_or(s, p) == IF ends_with(s, p) THEN SubSeq(s, 1, Len(s) - Len(p)) ELSE s

Range(f) == {f[i] : i \in DOMAIN f}

----------------------------------------------------------------------------
(* Bounds of the model *)

\* number of torrents the upstream daemon holds
NumTorrents == 3
\* number of calls the RPC client library makes
MaxCalls == 2

----------------------------------------------------------------------------
(* Paths *)

DirD == <<"/", "d">>                     \* the ACL's forced download_dir
DirDSlash == <<"/", "d", "/">>
DirDSub == <<"/", "d", "/", "x">>
DirDSibling == <<"/", "d", "-", "a">>    \* a sibling whose name starts with D
DirOther == <<"/", "e">>

Paths == {DirD, DirDSlash, DirDSub, DirDSibling, DirOther}

----------------------------------------------------------------------------
(* RPC method names (rpc::MethodName, kebab-case) *)

TorrentActionMethods ==
    {"torrent-start", "torrent-start-now", "torrent-stop", "torrent-verify",
     "torrent-reannounce"}
QueueMethods ==
    {"queue-move-top", "queue-move-up", "queue-move-down", "queue-move-bottom"}
SessionMethods ==
    {"session-set", "session-get", "session-stats", "blocklist-update",
     "port-test", "session-close", "free-space"}
MethodNames ==
    TorrentActionMethods \cup QueueMethods \cup SessionMethods \cup
    {"torrent-set", "torrent-get", "torrent-add", "torrent-remove",
     "torrent-set-location", "torrent-rename-path"}

----------------------------------------------------------------------------
(* Basic credential verifier *)

\* A password: the first 72 bytes, which are all bcrypt reads, and the rest.
Password(first72, rest) == [first72 |-> first72, rest |-> rest]
PwAlice == Password("pa", "")
PwAliceLong == Password("pa", "x")
PwWrong == Password("bad", "")
Passwords == {PwAlice, PwAliceLong, PwWrong}

\* A configured bcrypt hash: malformed, or the hash of 72 bytes.
Hash(valid, of) == [valid |-> valid, of |-> of]

\* providers.basic.users
BasicUsers ==
    << [username |-> "alice", password |-> Hash(TRUE, "pa")],
       [username |-> "dave", password |-> Hash(FALSE, "")] >>

Usernames == {BasicUsers[i].username : i \in DOMAIN BasicUsers}

\* the usernames clients present
AuthNames == {"alice", "dave", "carol"}

\* the calls of auth the tasks of other requests make
ConcurrentCalls == {<<"alice", PwAlice>>, <<"alice", PwAliceLong>>, <<"dave", PwAlice>>}

\* the names a HashMap<String, SecretString> of the model may hold: the
\* configured usernames and those clients present
CacheKeys == Usernames \cup {"carol"}

\* bcrypt::verify(password, hash): "true", "false" or "err"
bcrypt_verify(password, hash) ==
    IF ~hash.valid THEN "err"
    ELSE IF password.first72 = hash.of THEN "true" ELSE "false"

\* self.users.iter().find(|entry| entry.username == user)
find_user(users, u) ==
    LET hits == {i \in DOMAIN users : users[i].username = u}
    IN  IF hits = {} THEN None
        ELSE Some(users[CHOOSE i \in hits : \A j \in hits : i <= j])

\* the verifier that caches the password whatever bcrypt says
auth_caching_unverified(users, cache, u, password) ==
    LET found == find_user(users, u) IN
    IF is_none(found) THEN [result |-> FALSE, cache |-> cache]
    ELSE
        LET basic_auth_user == unwrap(found)
            name == basic_auth_user.username
        IN  IF is_some(cache[name])
            THEN [result |-> unwrap(cache[name]) = password, cache |-> cache]
            ELSE
                LET v == bcrypt_verify(password, basic_auth_user.password) IN
                [result |-> v = "true",
                 cache |-> [cache EXCEPT ![name] = Some(password)]]

\* BasicAuthProvider::auth: the result and the verify cache afterwards
auth(users, cache, u, password) ==
    LET found == find_user(users, u) IN
    IF is_none(found) THEN [result |-> FALSE, cache |-> cache]
    ELSE
        LET basic_auth_user == unwrap(found)
            name == basic_auth_user.username
        IN  IF is_some(cache[name])
            THEN [result |-> unwrap(cache[name]) = password, cache |-> cache]
            ELSE
                LET v == bcrypt_verify(password, basic_auth_user.password) IN
                IF v = "true"
                THEN [result |-> TRUE,
                      cache |-> [cache EXCEPT ![name] = Some(password)]]
                ELSE [result |-> FALSE, cache |-> cache]

----------------------------------------------------------------------------
(* Identities *)

Anonymous == [kind |-> "Anonymous", username |-> "", password |-> None, provider |-> ""]
Basic(u, pw) == [kind |-> "Basic", username |-> u, password |-> pw, provider |-> ""]
OAuth2(u, p) == [kind |-> "OAuth2", username |-> u, password |-> None, provider |-> p]

\* AuthUser::is_anonymous
is_anonymous(u) == u.kind = "Anonymous"

AuthUsers ==
    {Anonymous,
     Basic("alice", Some(PwAlice)), Basic("alice", Some(PwAliceLong)),
     Basic("alice", Some(PwWrong)), Basic("alice", None),
     Basic("dave", Some(PwAlice)), Basic("carol", Some(PwAlice)),
     OAuth2("bob", "gh"), OAuth2("bob", "gl"), OAuth2("alice", "gh")}

(* ACL rules *)

\* AclIdentity
IdBasic(n) == [provider |-> "basic", name |-> n, oauth2 |-> ""]
IdOAuth2(n, p) == [provider |-> "oauth2", name |-> n, oauth2 |-> p]

\* TrackerRule::Replace { from, to }
Replace(from, to) == [from |-> from, to |-> to]

Acl(identities, download_dir, allowed_methods, deny, tracker_rules) ==
    [identities |-> identities, download_dir |-> download_dir,
     allowed_methods |-> allowed_methods, deny |-> deny,
     tracker_rules |-> tracker_rules]

\* Acls::get_anon
get_anon(rs) ==
    LET hits == {i \in DOMAIN rs : rs[i].identities = {}}
    IN  IF hits = {} THEN None
        ELSE Some(CHOOSE i \in hits : \A j \in hits : i <= j)

\* the scan that keeps the last rule naming the identity
find_rule_last(rs, matcher) ==
    LET hits == {i \in DOMAIN rs : matcher \in rs[i].identities}
    IN  IF hits = {} THEN None
        ELSE Some(CHOOSE i \in hits : \A j \in hits : i >= j)

\* self.rules.iter().find(|acl| acl.identities.iter().any(pred))
find_rule(rs, matcher) ==
    LET hits == {i \in DOMAIN rs : matcher \in rs[i].identities}
    IN  IF hits = {} THEN None
        ELSE Some(CHOOSE i \in hits : \A j \in hits : i <= j)

\* Option::or_else(|| self.get_anon())
or_else_anon(rs, found) == IF is_some(found) THEN found ELSE get_anon(rs)

\* the resolver that returns the Basic rule whatever the provider answers
get_unverified(rs, users, cache, u) ==
    IF u.kind = "Anonymous" THEN
        [acl |-> or_else_anon(rs, None), cache |-> cache, auth_called |-> FALSE]
    ELSE IF u.kind = "Basic" THEN
        LET basic_user == find_rule(rs, IdBasic(u.username)) IN
        IF is_none(basic_user) THEN
            [acl |-> None, cache |-> cache, auth_called |-> FALSE]
        ELSE IF is_some(u.password) THEN
            LET a == auth(users, cache, u.username, unwrap(u.password)) IN
            [acl |-> or_else_anon(rs, basic_user),
             cache |-> a.cache, auth_called |-> TRUE]
        ELSE
            [acl |-> or_else_anon(rs, basic_user), cache |-> cache,
             auth_called |-> FALSE]
    ELSE
        LET oauth_user == find_rule(rs, IdOAuth2(u.username, u.provider)) IN
        [acl |-> or_else_anon(rs, oauth_user), cache |-> cache,
         auth_called |-> FALSE]

\* Acls::get: the rule returned (an index into the rule list), the verify
\* cache afterwards, and whether BasicAuthProvider::auth was called
get(rs, users, cache, u) ==
    IF u.kind = "Anonymous" THEN
        [acl |-> or_else_anon(rs, None), cache |-> cache, auth_called |-> FALSE]
    ELSE IF u.kind = "Basic" THEN
        LET basic_user == find_rule(rs, IdBasic(u.username)) IN
        IF is_none(basic_user) THEN
            \* `let basic_user = basic_user?;` returns None from get itself:
            \* the or_else at the end of the match is not reached
            [acl |-> None, cache |-> cache, auth_called |-> FALSE]
        ELSE IF is_some(u.password) THEN
            LET a == auth(users, cache, u.username, unwrap(u.password)) IN
            [acl |-> or_else_anon(rs, IF a.result THEN basic_user ELSE None),
             cache |-> a.cache, auth_called |-> TRUE]
        ELSE
            \* Auth through JWT
            [acl |-> or_else_anon(rs, basic_user), cache |-> cache,
             auth_called |-> FALSE]
    ELSE
        LET oauth_user == find_rule(rs, IdOAuth2(u.username, u.provider)) IN
        [acl |-> or_else_anon(rs, oauth_user), cache |-> cache,
         auth_called |-> FALSE]

\* Acl::is_nop
is_nop(a) ==
    /\ is_none(a.download_dir)
    /\ a.allowed_methods = {}
    /\ ~a.deny
    /\ a.tracker_rules = <<>>

----------------------------------------------------------------------------
(* Result<T, FilterErrorKind> *)

Ok(x) == [ok |-> TRUE, value |-> x, err |-> [name |-> "", reason |-> ""]]
Err(name, reason) == [ok |-> FALSE, value |-> <<>>, err |-> [name |-> name, reason |-> reason]]

\* FilterErrorKind's Display (thiserror #[error(...)])
to_string(kind) ==
    CASE kind.name = "Unsupported" ->
            IF kind.reason = "magnet links" THEN "unsupported: magnet links"
            ELSE "unsupported: trackerReplace in torrent-set"
      [] kind.name = "Forbidden" -> "access denied"
      [] kind.name = "Torrent" -> "torrent error"
      [] kind.name = "Base64" -> "base64 error"
      [] kind.name = "ParseBody" -> "could not parse request body"
      [] kind.name = "Serde" -> "could not decode body"
      [] kind.name = "Upstream" -> "upstream error"
      [] OTHER -> "unknown upstream error"

\* the status match of From<FilterError> for hyper::Response
status_of(kind) ==
    CASE kind.name = "Unsupported" -> 501
      [] kind.name = "Forbidden" -> 403
      [] kind.name \in {"Torrent", "Base64", "ParseBody"} -> 400
      [] kind.name = "Serde" -> 500
      [] kind.name = "Upstream" -> 503
      [] OTHER -> 502

----------------------------------------------------------------------------
(* RPC model *)

\* TorrentIds: Id(i32), Ids(Vec<TorrentId>), Set(RecentlyActive)
Id(i) == [kind |-> "Id", list |-> <<i>>]
Ids(l) == [kind |-> "Ids", list |-> l]
RecentlyActive == [kind |-> "Set", list |-> <<>>]

\* tracker URLs
UrlOld == <<"o", "x">>
UrlNew == <<"n", "x">>
UrlKeep == <<"k">>

\* crate::torrent::Torrent: announce, announce-list and the other keys
Metainfo(announce, announce_list, rest) ==
    [announce |-> announce, announce_list |-> announce_list, rest |-> rest]
NoMetainfo == Metainfo(None, None, "")

\* the metainfo argument of torrent-add: an empty string, a string that is
\* not base64, base64 of bytes that are not a bencoded torrent, or base64 of
\* a bencoded torrent
MetaEmpty == [kind |-> "empty", torrent |-> NoMetainfo]
MetaBadBase64 == [kind |-> "bad-base64", torrent |-> NoMetainfo]
MetaBadBencode == [kind |-> "bad-bencode", torrent |-> NoMetainfo]
MetaTorrent(t) == [kind |-> "torrent", torrent |-> t]

\* Request { call: MethodCall, tag }; the fields a method does not have keep
\* their defaults
Request(method, t, ids, location, download_dir, metainfo, tracker_add, tracker_remove, tracker_replace, fields) ==
    [method |-> method, tag |-> t, ids |-> ids, location |-> location,
     download_dir |-> download_dir, metainfo |-> metainfo,
     tracker_add |-> tracker_add, tracker_remove |-> tracker_remove,
     tracker_replace |-> tracker_replace, fields |-> fields,
     path |-> <<>>, name |-> ""]

SimpleRequest(method, t, ids) ==
    Request(method, t, ids, None, <<>>, MetaEmpty, <<>>, <<>>, <<>>, <<>>)

\* TorrentRenamePath { ids, path, name }
RenamePath(t, ids, path, name) ==
    [SimpleRequest("torrent-rename-path", t, ids) EXCEPT !.path = path, !.name = name]

\* the capability without torrent-rename-path
torrent_ids_without_rename(method) ==
    method \in TorrentActionMethods \cup
        {"torrent-set", "torrent-get", "torrent-remove", "torrent-set-location"}

\* MaybeTorrentIds::torrent_ids: the calls that have the HasTorrentIds capability
torrent_ids(method) ==
    method \in TorrentActionMethods \cup
        {"torrent-set", "torrent-get", "torrent-remove", "torrent-set-location",
         "torrent-rename-path"}

\* the capability under which no call filters on the response
filters_on_response_never(method) == FALSE

\* HasTorrentIds::filters_on_response (impl_has_torrent_ids!(TorrentGet, true))
filters_on_response(method) == method = "torrent-get"

----------------------------------------------------------------------------
(* HTTP messages *)

\* a JSON body: whether it deserializes as RawResponse, and what it holds
JsonBody(parses, t, arguments, result) ==
    [kind |-> "json", parses |-> parses, tag |-> t, arguments |-> arguments,
     result |-> result, text |-> ""]
\* any other body
TextBody(text) ==
    [kind |-> "text", parses |-> FALSE, tag |-> None, arguments |-> None,
     result |-> "", text |-> text]

\* SessionArguments as the upstream sends them: whether every field the
\* struct requires is there, and a field the struct does not declare
Session(download_dir, version, complete, unknown) ==
    [download_dir |-> download_dir, version |-> version, complete |-> complete,
     unknown |-> unknown]
NoSession == Session(<<>>, "", FALSE, None)

\* the arguments of a response
ArgTorrents(ts) == [kind |-> "torrents", torrents |-> ts, session |-> NoSession]
ArgSession(se) == [kind |-> "session", torrents |-> <<>>, session |-> se]
ArgOther == [kind |-> "other", torrents |-> <<>>, session |-> NoSession]
\* arguments that are JSON but not an object: a number, a string, an array
ArgNotObject == [kind |-> "not-object", torrents |-> <<>>, session |-> NoSession]

\* rpc::Torrent
Torrent(id, download_dir) == [id |-> id, downloadDir |-> download_dir]

\* an HTTP response; `error` is a hyper::Error in place of a response
HttpResponse(status, session_id, location, www_authenticate, body) ==
    [error |-> FALSE, status |-> status, session_id |-> session_id,
     location |-> location, www_authenticate |-> www_authenticate, body |-> body]
HyperError ==
    [error |-> TRUE, status |-> 0, session_id |-> None, location |-> None,
     www_authenticate |-> None, body |-> TextBody("")]

\* the credentials of an HTTP request: the claim of its _transmission_proxy
\* cookie, if it has the cookie, and its Authorization header, if it has the
\* header
Credentials(cookie, authorization) == [cookie |-> cookie, authorization |-> authorization]
NoCredentials == Credentials(None, None)

\* a cookie whose JWT verifies, with the identity of its UserClaim, and one
\* whose JWT does not
Claim(u) == [valid |-> TRUE, user |-> u]
BadClaim == [valid |-> FALSE, user |-> Anonymous]

\* an Authorization header that decodes as Authorization<Basic>, with its
\* username and password, and one that does not (another scheme, or Basic
\* without base64 of user:password)
BasicHeader(u, password) == [decodes |-> TRUE, username |-> u, password |-> password]
InvalidHeader == [decodes |-> FALSE, username |-> "", password |-> Password("", "")]

\* an HTTP request: the uri, the headers the model follows, and the body
HttpRequest(uri, session_id, user_agent, body) ==
    [uri |-> uri, session_id |-> session_id, user_agent |-> user_agent, body |-> body,
     credentials |-> NoCredentials]

\* the request with a cookie or an Authorization header
with_credentials(h, c) == [h EXCEPT !.credentials = c]

\* request bodies: one that deserializes as Request, one that does not, and
\* one whose bytes the client never finishes sending
BodyRequest(r) == [kind |-> "request", request |-> Some(r)]
BodyEmpty == [kind |-> "empty", request |-> None]
BodyUnknownMethod == [kind |-> "unknown-method", request |-> None]
BodyAborted == [kind |-> "aborted", request |-> None]

UriRpc == <<"/", "r", "p", "c">>
UriWeb == <<"/", "w", "/">>

\* req.uri().path().ends_with("/rpc")
is_rpc(uri) == ends_with(uri, UriRpc)

\* urlencoding::encode over the characters the model uses
urlencode(s) == [i \in DOMAIN s |-> IF s[i] = "/" THEN "%2F" ELSE s[i]]

\* str::trim_end_matches(c)
RECURSIVE trim_end_matches(_, _)
trim_end_matches(s, c) ==
    IF s /= <<>> /\ s[Len(s)] = c
    THEN trim_end_matches(SubSeq(s, 1, Len(s) - 1), c)
    ELSE s

\* Paths::new: login_path, from the path of args.bind
login_path(bind_path) ==
    trim_end_matches(bind_path, "/") \o <<"/", "l", "o", "g", "i", "n">>

----------------------------------------------------------------------------
(* Tracker rule engine *)

\* index of the leftmost occurrence of p in s, 0 when there is none
find(s, p) ==
    LET hits == {i \in 1..(Len(s) - Len(p) + 1) : SubSeq(s, i, i + Len(p) - 1) = p}
    IN  IF hits = {} THEN 0 ELSE CHOOSE i \in hits : \A j \in hits : i <= j

\* Regex::replace for a literal pattern and a literal replacement: the
\* leftmost match is replaced, a string without a match is returned as is
replace(s, from, to) ==
    LET i == find(s, from)
    IN  IF i = 0 THEN s
        ELSE SubSeq(s, 1, i - 1) \o to \o SubSeq(s, i + Len(from), Len(s))

\* TrackerRule::matches
matches(rule, announce) == TRUE

\* TrackerRule::apply
apply(rule, announce) == Some(replace(announce, rule.from, rule.to))

\* RpcProxyClient::filter_tracker
RECURSIVE filter_tracker(_, _)
\* the filter that stops after the first rule
RECURSIVE filter_tracker_first_rule(_, _)
filter_tracker_first_rule(tracker, tracker_rules) ==
    IF tracker_rules = <<>> THEN tracker
    ELSE IF is_none(tracker) THEN tracker
    ELSE IF ~matches(Head(tracker_rules), unwrap(tracker))
         THEN filter_tracker_first_rule(tracker, Tail(tracker_rules))
    ELSE apply(Head(tracker_rules), unwrap(tracker))

filter_tracker(tracker, tracker_rules) ==
    IF tracker_rules = <<>> THEN tracker
    ELSE IF is_none(tracker) THEN tracker
    ELSE IF ~matches(Head(tracker_rules), unwrap(tracker))
         THEN filter_tracker(tracker, Tail(tracker_rules))
    ELSE filter_tracker(apply(Head(tracker_rules), unwrap(tracker)), Tail(tracker_rules))

\* the list filter that leaves the list as it is
filter_tracker_list_unfiltered(tracker_list, tracker_rules) == tracker_list

\* RpcProxyClient::filter_tracker_list
RECURSIVE filter_tracker_list(_, _)
filter_tracker_list(tracker_list, tracker_rules) ==
    IF tracker_list = <<>> THEN <<>>
    ELSE LET result == filter_tracker(Some(Head(tracker_list)), tracker_rules)
         IN  result \o filter_tracker_list(Tail(tracker_list), tracker_rules)

----------------------------------------------------------------------------
(* Request filter (RpcProxyClient) *)

\* RpcProxyClient::prefix_ok
prefix_ok(location, a) ==
    IF is_some(a.download_dir) THEN
        LET download_dir == unwrap(a.download_dir)
            prefix == IF ends_with(download_dir, <<"/">>) THEN download_dir
                      ELSE download_dir \o <<"/">>
        IN  starts_with(location, prefix)
    ELSE TRUE

\* the allow-list check left out
method_allowed_skipped(r, a) == TRUE

\* do_filter_request, "Check ACL": the allow-list lets the call through
method_allowed(r, a) ==
    ~(a.allowed_methods /= {} /\ r.method \notin a.allowed_methods)

\* the probe left out for the calls that carry a location
needs_probe_after_location(r, a) ==
    /\ is_some(a.download_dir)
    /\ torrent_ids(r.method)
    /\ ~filters_on_response(r.method)
    /\ is_none(r.location)

\* do_filter_request, "Filter torrent ids": filter_torrent_ids is called and
\* sends a probe
needs_probe(r, a) ==
    /\ is_some(a.download_dir)
    /\ torrent_ids(r.method)
    /\ ~filters_on_response(r.method)

\* filter_torrent_ids: the torrent-get sent to authorize the targets
torrents_rpc_req(input) ==
    Request("torrent-get", None, input, None, <<>>, MetaEmpty, <<>>, <<>>, <<>>,
            <<"id", "downloadDir">>)

\* the target-set expansion that goes on when the probe failed
filter_torrent_ids_lenient(r, a, res) ==
    IF res.error \/ ~res.body.parses \/ is_none(res.body.arguments) THEN Ok(r)
    ELSE IF unwrap(res.body.arguments).kind /= "torrents" THEN Ok(r)
    ELSE
        LET torrents == unwrap(res.body.arguments).torrents
        IN  Ok([r EXCEPT !.ids = Some(Ids([i \in DOMAIN torrents |-> torrents[i].id]))])

\* the target-set expansion that reports every failure as UpstreamUnknown
filter_torrent_ids_unknown(r, a, res) ==
    IF res.error \/ ~res.body.parses \/ is_none(res.body.arguments)
    THEN Err("UpstreamUnknown", "")
    ELSE IF unwrap(res.body.arguments).kind /= "torrents" THEN Err("UpstreamUnknown", "")
    ELSE
        LET torrents == unwrap(res.body.arguments).torrents
        IN  Ok([r EXCEPT !.ids = Some(Ids([i \in DOMAIN torrents |-> torrents[i].id]))])

\* filter_torrent_ids, from the probe's response on: the request with its ids
\* replaced, or the error
filter_torrent_ids(r, a, res) ==
    IF res.error THEN Err("Upstream", "")
    ELSE IF ~res.body.parses THEN Err("Serde", "")
    ELSE IF is_none(res.body.arguments) THEN Err("UpstreamUnknown", "")
    ELSE IF unwrap(res.body.arguments).kind /= "torrents" THEN Err("Serde", "")
    ELSE
        LET torrents == unwrap(res.body.arguments).torrents
        IN  Ok([r EXCEPT !.ids = Some(Ids([i \in DOMAIN torrents |-> torrents[i].id]))])

\* the announce-list of a torrent through the tracker rules
filter_announce_list(announce_list, tracker_rules) ==
    IF is_none(announce_list) THEN None
    ELSE LET list == unwrap(announce_list)
         IN  Some([i \in DOMAIN list |-> filter_tracker_list(list[i], tracker_rules)])

\* do_filter_request, the TorrentAdd arm
filter_torrent_add(r, a) ==
    IF ~prefix_ok(r.download_dir, a) THEN Err("Forbidden", "")
    ELSE IF a.tracker_rules /= <<>> THEN
        IF r.metainfo.kind /= "empty" THEN
            IF r.metainfo.kind = "bad-base64" THEN Err("Base64", "")
            ELSE IF r.metainfo.kind = "bad-bencode" THEN Err("Torrent", "")
            ELSE
                LET torrent == r.metainfo.torrent
                    filtered ==
                        Metainfo(filter_tracker(torrent.announce, a.tracker_rules),
                                 filter_announce_list(torrent.announce_list, a.tracker_rules),
                                 torrent.rest)
                IN  Ok([r EXCEPT !.metainfo = MetaTorrent(filtered)])
        ELSE Err("Unsupported", "magnet links")
    ELSE Ok(r)

\* the TorrentSet arm that lets trackerReplace through
filter_torrent_set_replacing(r, a) ==
    IF is_some(r.location) /\ ~prefix_ok(unwrap(r.location), a)
    THEN Err("Forbidden", "")
    ELSE IF a.tracker_rules /= <<>> THEN
        Ok([r EXCEPT
               !.tracker_add = filter_tracker_list(r.tracker_add, a.tracker_rules),
               !.tracker_remove = filter_tracker_list(r.tracker_remove, a.tracker_rules)])
    ELSE Ok(r)

\* do_filter_request, the TorrentSet arm
filter_torrent_set(r, a) ==
    IF is_some(r.location) /\ ~prefix_ok(unwrap(r.location), a)
    THEN Err("Forbidden", "")
    ELSE IF a.tracker_rules /= <<>> THEN
        IF r.tracker_replace /= <<>>
        THEN Err("Unsupported", "trackerReplace in torrent-set")
        ELSE Ok([r EXCEPT
                    !.tracker_add = filter_tracker_list(r.tracker_add, a.tracker_rules),
                    !.tracker_remove = filter_tracker_list(r.tracker_remove, a.tracker_rules)])
    ELSE Ok(r)

\* do_filter_request, the TorrentSetLocation arm
filter_torrent_set_location(r, a) ==
    IF ~prefix_ok(unwrap(r.location), a) THEN Err("Forbidden", "") ELSE Ok(r)

\* do_filter_request, `match &mut request.call`
filter_call(r, a) ==
    CASE r.method = "torrent-set" -> filter_torrent_set(r, a)
      [] r.method = "torrent-set-location" -> filter_torrent_set_location(r, a)
      [] r.method = "torrent-add" -> filter_torrent_add(r, a)
      [] OTHER -> Ok(r)

----------------------------------------------------------------------------
(* Response filter (RpcProxyClient) *)

\* Response { tag, arguments, result } serialized
Response(t, arguments, result) == JsonBody(TRUE, t, arguments, result)

\* the retain predicate keeping every torrent
in_download_dir_any(torrent, download_dir) == TRUE

\* the retain predicate of the torrent-get arm
in_download_dir(torrent, download_dir) ==
    LET torrent_download_dir == strip_suffix_or(torrent.downloadDir, <<"/">>)
    IN  starts_with(torrent_download_dir, download_dir)

\* RpcProxyClient::do_filter_response
do_filter_response(r, raw, a) ==
    IF /\ is_some(a.download_dir)
       /\ r.method = "torrent-get"
       /\ is_some(raw.arguments)
    THEN
        LET args == unwrap(raw.arguments) IN
        IF args.kind /= "torrents" THEN Err("Serde", "")
        ELSE Ok(Response(r.tag,
                         Some(ArgTorrents(SelectSeq(args.torrents,
                              LAMBDA t : in_download_dir(t, unwrap(a.download_dir))))),
                         raw.result))
    ELSE IF /\ is_some(a.download_dir)
            /\ r.method = "session-get"
            /\ is_some(raw.arguments)
    THEN
        LET args == unwrap(raw.arguments) IN
        IF args.kind /= "session" \/ ~args.session.complete THEN Err("Serde", "")
        ELSE Ok(Response(r.tag,
                         Some(ArgSession(
                             Session(unwrap(a.download_dir),
                                     args.session.version, TRUE, None))),
                         raw.result))
    ELSE Ok(Response(raw.tag, raw.arguments, raw.result))

\* the failure response that carries no tag
error_response_untagged(t, kind) ==
    HttpResponse(status_of(kind), None, None, None, Response(None, None, to_string(kind)))

\* From<FilterError> for hyper::Response
error_response(t, kind) ==
    HttpResponse(status_of(kind), None, None, None, Response(t, None, to_string(kind)))

----------------------------------------------------------------------------
(* Inputs: the configurations, the client's requests, the upstream's answers *)

\* tracker rules of the configurations
TrackerRules == << Replace(<<"o">>, <<"n">>), Replace(<<"n">>, <<"m">>) >>

\* allowed_methods of the configurations that restrict methods
AllowList == {"torrent-get", "torrent-add", "torrent-stop", "session-get"}

\* the policies of a rule: download_dir, allowed_methods, deny, tracker_rules
Policies ==
    { <<None, {}, FALSE, <<>> >>,
      <<Some(DirD), {}, FALSE, <<>> >>,
      <<None, AllowList, FALSE, <<>> >>,
      <<Some(DirD), AllowList, FALSE, <<>> >>,
      <<None, {}, TRUE, <<>> >>,
      <<None, AllowList, TRUE, <<>> >>,
      <<None, {}, FALSE, TrackerRules>>,
      <<Some(DirD), {}, FALSE, TrackerRules>> }

Rule(identities, pol) == Acl(identities, pol[1], pol[2], pol[3], pol[4])

Named == {IdBasic("alice"), IdBasic("dave"), IdOAuth2("bob", "gh")}

\* the rule lists a configuration file may hold
Configs ==
    { <<>> }
    \cup { << Rule(Named, pol), Rule({}, <<None, {}, TRUE, <<>> >>) >> : pol \in Policies }
    \cup { << Rule({IdBasic("alice")}, <<Some(DirD), {}, FALSE, <<>> >>),
              Rule(Named, <<None, {}, FALSE, <<>> >>) >>,
           << Rule({}, <<Some(DirD), {}, FALSE, <<>> >>),
              Rule({IdBasic("alice"), IdBasic("carol")}, <<None, AllowList, FALSE, <<>> >>),
              Rule({}, <<None, {}, FALSE, <<>> >>) >> }

\* the path of --bind: the default, one with a trailing '/', and none
BindDefault == <<"/", "t", "r", "a", "n", "s", "m", "i", "s", "s", "i", "o", "n">>
Binds == {BindDefault, <<"/", "t", "/">>, <<"/">>}

\* the rule list that denies whoever no rule names
DenyOthers == << Rule(Named, <<None, {}, FALSE, <<>> >>), Rule({}, <<None, {}, TRUE, <<>> >>) >>

\* command line and configuration file together
Deployments ==
    { [rules |-> c, bind |-> BindDefault, enabled |-> TRUE] : c \in Configs }
    \cup { [rules |-> DenyOthers, bind |-> b, enabled |-> TRUE] : b \in Binds }
    \cup { [rules |-> DenyOthers, bind |-> BindDefault, enabled |-> FALSE] }

Tags == {None, Some(1)}
UpstreamTags == {None, Some(1), Some(2)}
\* the values of the X-Transmission-Session-Id header, as bytes: "s1", "s2",
\* and a value with a byte that is not visible ASCII
S1 == <<115, 49>>
S2 == <<115, 50>>
SNotVisible == <<115, 255>>
SessionIds == {S1, S2}

IdsSet == {None, Some(Id(1)), Some(Ids(<<1, 2>>)), Some(RecentlyActive)}

Torrent1 == Metainfo(Some(UrlOld), Some(<< <<UrlOld, UrlKeep>> >>), "info")
Torrent2 == Metainfo(None, None, "info")
Metainfos ==
    {MetaEmpty, MetaBadBase64, MetaBadBencode, MetaTorrent(Torrent1), MetaTorrent(Torrent2)}

\* the RPC requests a client sends
Requests ==
    { SimpleRequest(m, ti[1], ti[2]) :
        m \in TorrentActionMethods \cup QueueMethods \cup
              {"torrent-remove", "torrent-get"},
        ti \in (Tags \X {None}) \cup ({Some(1)} \X IdsSet) }
    \cup { RenamePath(ti[1], ti[2], <<"f">>, "g") :
            ti \in (Tags \X {None}) \cup ({Some(1)} \X IdsSet) }
    \cup { SimpleRequest(m, t, None) : m \in SessionMethods, t \in Tags }
    \cup { Request("torrent-set", Some(1), Some(Id(1)), loc, <<>>, MetaEmpty, tr[1], <<>>, tr[2], <<>>) :
            loc \in {None, Some(DirD), Some(DirDSub), Some(DirDSibling)},
            tr \in { << <<>>, <<>> >>, << <<UrlOld, UrlKeep>>, <<>> >>, << <<>>, <<UrlOld>> >> } }
    \cup { Request("torrent-set-location", Some(1), Some(Id(1)), Some(loc), <<>>, MetaEmpty,
                   <<>>, <<>>, <<>>, <<>>) : loc \in Paths }
    \cup { Request("torrent-add", Some(1), None, None, dm[1], dm[2], <<>>, <<>>, <<>>, <<>>) :
            dm \in (Paths \X {MetaTorrent(Torrent1)}) \cup ({DirDSub} \X Metainfos) }

UserAgents == {"transmission-remote-gtk", "other"}

\* every RPC body, from one kind of client
AllHttp ==
    { HttpRequest(UriRpc, Some(S1), "other", b) :
        b \in {BodyRequest(r) : r \in Requests} \cup {BodyEmpty, BodyUnknownMethod} }

\* a few requests, with every header
FewHttp ==
    { HttpRequest(uri, sid, ua, b) :
        uri \in {UriRpc}, sid \in {None, Some(S1)}, ua \in UserAgents,
        b \in {BodyRequest(SimpleRequest("torrent-get", Some(1), None)),
               BodyRequest(SimpleRequest("torrent-stop", Some(1), Some(Id(1))))} }
    \cup { HttpRequest(UriWeb, None, ua, BodyEmpty) : ua \in UserAgents }
    \cup { HttpRequest(uri, None, "other", BodyAborted) : uri \in {UriRpc, UriWeb} }

\* the credentials of the clients: none, a cookie, or a Basic header
FewCredentials == {NoCredentials, Credentials(Some(Claim(Basic("alice", None))), None)}
AllCredentials ==
    FewCredentials
    \cup { Credentials(Some(Claim(u)), None) :
            u \in {OAuth2("bob", "gh"), OAuth2("bob", "gl"), OAuth2("alice", "gh")} }
    \cup { Credentials(None, Some(BasicHeader("alice", password))) : password \in Passwords }
    \cup { Credentials(None, Some(BasicHeader("dave", PwAlice))),
           Credentials(None, Some(BasicHeader("carol", PwAlice))),
           Credentials(Some(BadClaim), None),
           Credentials(None, Some(InvalidHeader)),
           Credentials(Some(Claim(Basic("alice", None))), Some(InvalidHeader)),
           Credentials(Some(Claim(OAuth2("bob", "gh"))), Some(BasicHeader("alice", PwWrong))) }

\* the requests the model serves
Arrivals ==
    { with_credentials(h, c) : h \in AllHttp, c \in FewCredentials }
    \cup { with_credentials(h, c) : h \in FewHttp, c \in AllCredentials }

\* the torrents the upstream daemon holds
DirList == <<DirD, DirOther, DirDSibling, DirDSlash, DirDSub>>
UpstreamTorrents ==
    [i \in 1..NumTorrents |-> Torrent(i, DirList[((i - 1) % Len(DirList)) + 1])]

\* the torrent lists a response may hold: any selection of the torrents
TorrentLists ==
    { SelectSeq(UpstreamTorrents, LAMBDA t : t.id \in S) : S \in SUBSET (1..NumTorrents) }

Sessions ==
    { Session(DirOther, "4.0", TRUE, None),
      Session(DirOther, "4.0", TRUE, Some("session-id")),
      Session(DirD, "3.0", TRUE, None),
      Session(DirOther, "4.0", FALSE, None) }

\* the 409 body of the daemon
Html409 == TextBody("409: Conflict")

\* what the upstream may answer to the target-set probe
ProbeResponses ==
    { HttpResponse(200, None, None, None, JsonBody(TRUE, None, Some(ArgTorrents(ts)), "success")) :
        ts \in TorrentLists }
    \cup { HttpResponse(200, None, None, None, b) :
            b \in { JsonBody(TRUE, None, None, "success"),
                    JsonBody(TRUE, None, Some(ArgOther), "success"),
                    JsonBody(FALSE, None, Some(ArgTorrents(UpstreamTorrents)), "success"),
                    TextBody("") } }
    \cup { HttpResponse(409, Some(sid), None, None, Html409) : sid \in SessionIds }
    \cup { HyperError }

\* what the upstream may answer to a forwarded request
UpstreamResponses ==
    { HttpResponse(200, None, None, None, JsonBody(TRUE, t, args, "success")) :
        t \in UpstreamTags,
        args \in {None, Some(ArgTorrents(UpstreamTorrents)),
                  Some(ArgSession(Session(DirOther, "4.0", TRUE, None)))} }
    \cup { HttpResponse(200, None, None, None, JsonBody(TRUE, Some(1), args, "success")) :
            args \in {Some(ArgOther), Some(ArgNotObject)}
                     \cup {Some(ArgTorrents(ts)) : ts \in TorrentLists}
                     \cup {Some(ArgSession(se)) : se \in Sessions} }
    \cup { HttpResponse(200, Some(S1), None, None, JsonBody(TRUE, Some(1), None, "success")),
           HttpResponse(200, None, None, None,
                        JsonBody(FALSE, Some(1), Some(ArgTorrents(UpstreamTorrents)), "success")),
           HttpResponse(200, None, None, None, TextBody("")) }
    \cup { HttpResponse(409, Some(sid), None, None, b) :
            sid \in SessionIds,
            b \in {Html409, JsonBody(TRUE, Some(1), Some(ArgTorrents(UpstreamTorrents)), "success")} }
    \cup { HttpResponse(409, Some(SNotVisible), None, None, Html409) }
    \cup { HyperError }

----------------------------------------------------------------------------
(* The mediator *)

\* the HTTP status codes the front door sets
SEE_OTHER == 303
UNAUTHORIZED == 401
INTERNAL_SERVER_ERROR == 500

\* the request sent upstream: the client's uri and headers, and a body
forward(h, body) == [h EXCEPT !.body = body]

\* where a call stands after a leg: the parsed request, what was sent
\* upstream, and the response once there is one
Leg(p, r, s, resp) == [pc |-> p, request |-> r, sent |-> s, response |-> resp]

\* proxy_request, `if acl.deny`; login is ctx.paths.login_path
deny_response(u, h, login) ==
    IF is_anonymous(u) THEN
        IF h.user_agent = "transmission-remote-gtk"
        THEN HttpResponse(UNAUTHORIZED, None, None, Some("Basic realm=\"Transmission\""),
                          TextBody(""))
        ELSE HttpResponse(SEE_OTHER, None,
                          Some([path |-> login, redirect_to |-> urlencode(h.uri)]),
                          None, TextBody(""))
    ELSE HttpResponse(UNAUTHORIZED, None, None, None, TextBody("Unauthorized"))

\* proxy_request, the Err arm of handle_request
internal_error == HttpResponse(INTERNAL_SERVER_ERROR, None, None, None, TextBody("hyper error"))

\* AuthenticationError::into_response
invalid_credentials == HttpResponse(UNAUTHORIZED, None, None, None, TextBody("invalid credentials"))
invalid_claim == HttpResponse(UNAUTHORIZED, None, None, None, TextBody("invalid claim"))
invalid_auth_header ==
    HttpResponse(400, None, None, None, TextBody("invalid HTTP header (authorization)"))

\* what the extractor gives: the identity, or the rejection that answers the
\* request, and the verify cache afterwards
Extracted(u, cache) == [ok |-> TRUE, user |-> u, rejection |-> None, cache |-> cache]
Rejected(resp, cache) == [ok |-> FALSE, user |-> Anonymous, rejection |-> Some(resp), cache |-> cache]

\* <AuthUser as FromRequest>::from_request: the cookie first, then the
\* Authorization header if the Basic provider is enabled; a header that is
\* there and does not decode is rejected, a missing one is Anonymous
from_request(c, basic_enabled, users, cache) ==
    IF is_some(c.cookie) THEN
        IF unwrap(c.cookie).valid THEN Extracted(unwrap(c.cookie).user, cache)
        ELSE Rejected(invalid_claim, cache)
    ELSE IF basic_enabled /\ is_some(c.authorization) THEN
        LET basic == unwrap(c.authorization) IN
        IF ~basic.decodes THEN Rejected(invalid_auth_header, cache)
        ELSE
            LET a == auth(users, cache, basic.username, basic.password) IN
            IF a.result
            THEN Extracted(Basic(basic.username, Some(basic.password)), a.cache)
            ELSE Rejected(invalid_credentials, a.cache)
    ELSE Extracted(Anonymous, cache)

\* the forwarding that sends the filtered request twice
filter_and_forward_twice(h, r, a, s) ==
    LET f == filter_call(r, a) IN
    IF f.ok
    THEN Leg("forward", Some(f.value),
             Append(Append(s, forward(h, BodyRequest(f.value))),
                    forward(h, BodyRequest(f.value))), None)
    ELSE Leg("done", Some(r), s, Some(error_response(r.tag, f.err)))

\* do_filter_request after the target-set probe, and the forwarding of the
\* filtered request
filter_and_forward(h, r, a, s) ==
    LET f == filter_call(r, a) IN
    IF f.ok
    THEN Leg("forward", Some(f.value), Append(s, forward(h, BodyRequest(f.value))), None)
    ELSE Leg("done", Some(r), s, Some(error_response(r.tag, f.err)))

\* forward_rpc_request_acl from the bytes of the client's body to its first
\* await on the upstream
forward_rpc_request_acl(h, a) ==
    IF h.body.kind = "aborted"
    THEN Leg("done", None, <<>>, Some(internal_error))
    ELSE IF h.body.kind /= "request"
    THEN Leg("done", None, <<>>, Some(error_response(None, Err("ParseBody", "").err)))
    ELSE
        LET r == unwrap(h.body.request) IN
        IF ~method_allowed(r, a)
        THEN Leg("done", Some(r), <<>>,
                 Some(error_response(r.tag, Err("Forbidden", "").err)))
        ELSE IF needs_probe(r, a)
        THEN Leg("probe", Some(r),
                 <<forward(h, BodyRequest(torrents_rpc_req(r.ids)))>>, None)
        ELSE filter_and_forward(h, r, a, <<>>)

\* the handler that passes the request on without its body
handle_request_bodiless(h, rs, found) ==
    IF is_rpc(h.uri) /\ is_some(found)
    THEN Leg("body", None, <<>>, None)
    ELSE Leg("forward", None, <<forward(h, BodyEmpty)>>, None)

\* handle_request up to its first await: on the bytes of the client's body
\* for an RPC request under a rule, on the upstream for any other request
handle_request(h, rs, found) ==
    IF is_rpc(h.uri) /\ is_some(found)
    THEN Leg("body", None, <<>>, None)
    ELSE Leg("forward", None, <<h>>, None)

\* serde_json::to_string of a Response: ResponseKind::Other flattens its
\* value, which fails for a value that is not an object
serializes(body) ==
    is_none(body.arguments) \/ unwrap(body.arguments).kind /= "not-object"

\* forward_rpc_request_acl from the upstream's response on: the response the
\* client gets, or none when `expect("failed to serialize response")` panics
filter_upstream(r, a, res) ==
    IF res.error THEN Some(internal_error)
    ELSE IF res.status /= 409 /\ res.body.parses THEN
        LET f == do_filter_response(r, res.body, a) IN
        IF ~f.ok THEN Some(error_response(r.tag, f.err))
        ELSE IF serializes(f.value) THEN Some([res EXCEPT !.body = f.value])
        ELSE None
    ELSE Some(res)

\* handle_request from the upstream's response on
relay(h, rs, found, r, res) ==
    IF is_rpc(h.uri) /\ is_some(found)
    THEN filter_upstream(unwrap(r), rs[unwrap(found)], res)
    ELSE IF res.error THEN Some(internal_error) ELSE Some(res)

----------------------------------------------------------------------------
(* State machine of the proxy *)

NoHttp == HttpRequest(<<>>, None, "", BodyEmpty)

\* the tasks that call BasicAuthProvider::auth on their own
NumTasks == 2
Tasks == 1..NumTasks

\* a task that is not in a call of auth
IdleTask == [pc |-> "idle", user |-> "", password |-> Password("", ""), result |-> FALSE]

\* the tracker rule engine not applied
NoTrackers ==
    [pc |-> "none", rules |-> <<>>, list |-> <<>>, url |-> None,
     out_list |-> <<>>, out_url |-> None]

Init ==
    /\ \E d \in Deployments :
          /\ rules = d.rules
          /\ bind = d.bind
          /\ enabled = d.enabled
    /\ verify_cache = [n \in CacheKeys |-> None]
    /\ pc = "idle"
    /\ http = NoHttp
    /\ user = Anonymous
    /\ acl = None
    /\ request = None
    /\ sent = <<>>
    /\ probe = None
    /\ upstream = None
    /\ response = None
    /\ auth_called = FALSE
    /\ state = None
    /\ tag = 57680
    /\ cpc = "idle"
    /\ call = None
    /\ handshake = None
    /\ tasks = [t \in Tasks |-> IdleTask]
    /\ lock = None
    /\ trackers = NoTrackers
    /\ announced = None

\* a request reaches the route of proxy_request: its task starts
arrive(h) ==
    /\ pc' = "arrived"
    /\ http' = h
    /\ user' = Anonymous
    /\ acl' = None
    /\ request' = None
    /\ sent' = <<>>
    /\ probe' = None
    /\ upstream' = None
    /\ response' = None
    /\ auth_called' = FALSE
    /\ UNCHANGED verify_cache
    /\ UNCHANGED config_vars
    /\ UNCHANGED announced

\* a request of any client arrives
receive(h) ==
    /\ pc = "idle"
    /\ arrive(h)
    /\ UNCHANGED client_vars
    /\ UNCHANGED engine_vars

\* the extractor of proxy_request's `user: AuthUser` runs: with Basic
\* credentials it calls BasicAuthProvider::auth, whose Mutex guard is held
\* from the lookup to the return, and a rejection answers the request
extract_user ==
    /\ pc = "arrived"
    /\ LET e == from_request(http.credentials, enabled, BasicUsers, verify_cache) IN
        /\ verify_cache' = e.cache
        /\ user' = e.user
        /\ response' = e.rejection
        /\ pc' = IF e.ok THEN "extracted" ELSE "done"
    /\ UNCHANGED <<http, acl, request, sent, probe, upstream, auth_called>>
    /\ UNCHANGED config_vars
    /\ UNCHANGED announced
    /\ UNCHANGED client_vars
    /\ UNCHANGED engine_vars

\* routes::proxy_request from Acls::get to the denial, or to the first await
\* of handle_request
proxy_request ==
    /\ pc = "extracted"
    /\ LET g == get(rules, BasicUsers, verify_cache, user) IN
        /\ acl' = g.acl
        /\ verify_cache' = g.cache
        /\ auth_called' = g.auth_called
        /\ LET leg == IF is_some(g.acl) /\ rules[unwrap(g.acl)].deny
                      THEN Leg("done", None, <<>>,
                               Some(deny_response(user, http, login_path(bind))))
                      ELSE handle_request(http, rules, g.acl)
           IN  /\ pc' = leg.pc
               /\ request' = leg.request
               /\ sent' = leg.sent
               /\ response' = leg.response
    /\ UNCHANGED <<http, user, probe, upstream>>
    /\ UNCHANGED config_vars
    /\ UNCHANGED announced
    /\ UNCHANGED client_vars
    /\ UNCHANGED engine_vars

\* hyper::body::to_bytes(req.body_mut()) has the client's body: the request
\* is parsed and filtered up to the first await on the upstream
body_read ==
    /\ pc = "body"
    /\ LET leg == forward_rpc_request_acl(http, rules[unwrap(acl)]) IN
        /\ pc' = leg.pc
        /\ request' = leg.request
        /\ sent' = leg.sent
        /\ response' = leg.response
    /\ UNCHANGED <<verify_cache, http, user, acl, probe, upstream, auth_called>>
    /\ UNCHANGED config_vars
    /\ UNCHANGED announced
    /\ UNCHANGED client_vars
    /\ UNCHANGED engine_vars

\* the task of another request calls BasicAuthProvider::auth, from its
\* extractor or from its Acls::get, while this one is suspended or between
\* two requests: the verify cache is all the tasks of the server share
concurrent_auth(u, password) ==
    /\ verify_cache' = auth(BasicUsers, verify_cache, u, password).cache
    /\ UNCHANGED <<pc, http, user, acl, request, sent, probe, upstream, response,
                   auth_called>>
    /\ UNCHANGED config_vars
    /\ UNCHANGED announced
    /\ UNCHANGED client_vars
    /\ UNCHANGED engine_vars

\* the upstream answers the target-set probe
probe_response ==
    /\ pc = "probe"
    /\ \E res \in ProbeResponses :
        LET r == unwrap(request)
            a == rules[unwrap(acl)]
            fi == filter_torrent_ids(r, a, res)
            leg == IF fi.ok THEN filter_and_forward(http, fi.value, a, sent)
                   ELSE Leg("done", Some(r), sent, Some(error_response(r.tag, fi.err)))
        IN  /\ probe' = Some(res)
            /\ pc' = leg.pc
            /\ request' = leg.request
            /\ sent' = leg.sent
            /\ response' = leg.response
    /\ UNCHANGED <<verify_cache, http, user, acl, upstream, auth_called>>
    /\ UNCHANGED config_vars
    /\ UNCHANGED announced
    /\ UNCHANGED client_vars
    /\ UNCHANGED engine_vars

\* the tag of the RPC request an HTTP request holds
tag_of(h) == IF h.body.kind = "request" THEN unwrap(h.body.request).tag ELSE None

\* what the upstream may answer to the request h: any of its answers, with
\* the tag of the request or another one
UpstreamAnswers(h) ==
    UpstreamResponses
    \cup {[res EXCEPT !.body.tag = tag_of(h)] :
            res \in {x \in UpstreamResponses : x.body.kind = "json" /\ x.body.tag = Some(1)}}

\* the task of the request gets the answer res of the upstream to the
\* forwarded request; when the task panics the client gets no response
upstream_answers(res) ==
    /\ LET out == relay(http, rules, acl, request, res) IN
        /\ upstream' = Some(res)
        /\ response' = out
        /\ pc' = IF is_some(out) THEN "done" ELSE "panicked"
    /\ UNCHANGED <<verify_cache, http, user, acl, request, sent, probe,
                   auth_called>>
    /\ UNCHANGED config_vars
    /\ UNCHANGED client_vars
    /\ UNCHANGED engine_vars

\* the upstream answers the forwarded request
upstream_response ==
    /\ pc = "forward"
    /\ \E res \in UpstreamAnswers(sent[Len(sent)]) : upstream_answers(res)
    /\ UNCHANGED announced

\* the proxy's variables of a request, once its task has ended
task_ended ==
    /\ pc' = "idle"
    /\ http' = NoHttp
    /\ user' = Anonymous
    /\ acl' = None
    /\ request' = None
    /\ sent' = <<>>
    /\ probe' = None
    /\ upstream' = None
    /\ response' = None
    /\ auth_called' = FALSE
    /\ UNCHANGED verify_cache
    /\ UNCHANGED config_vars
    /\ UNCHANGED announced

\* the task of the request ends
Finish ==
    /\ pc \in {"done", "panicked", "failed"}
    /\ task_ended
    /\ UNCHANGED client_vars
    /\ UNCHANGED engine_vars

Next ==
    \/ \E h \in Arrivals : receive(h)
    \/ extract_user
    \/ proxy_request
    \/ body_read
    \/ \E c \in ConcurrentCalls : concurrent_auth(c[1], c[2])
    \/ probe_response
    \/ upstream_response
    \/ Finish

Spec == Init /\ [][Next]_vars

----------------------------------------------------------------------------
(* The handler of server.rs: Ctx::handle_proxy_request *)

\* ParsedRequest::try_from, basic_auth: the username and password of an
\* Authorization header that decodes as Basic credentials, none otherwise
basic_auth(c) ==
    IF is_some(c.authorization) /\ unwrap(c.authorization).decodes
    THEN c.authorization
    ELSE None

\* AuthUser::auth: the claim of a cookie that verifies, else the Basic
\* credentials as presented, else Anonymous; none when From<UserClaim>
\* reaches todo!() on an OAuth2 claim and the task panics
auth_user(c) ==
    IF is_some(c.cookie) /\ unwrap(c.cookie).valid THEN
        LET claim == unwrap(c.cookie).user IN
        IF claim.kind = "Basic" THEN Some(Basic(claim.username, None)) ELSE None
    ELSE IF is_some(basic_auth(c)) THEN
        LET basic == unwrap(basic_auth(c)) IN
        Some(Basic(basic.username, Some(basic.password)))
    ELSE Some(Anonymous)

\* Acls::get of src/src/acl.rs: the first rule that names the Basic user,
\* when the provider accepts the presented password or the user came by a
\* cookie; in every other case the first rule without identities, if any
acls_get(rs, users, cache, u) ==
    IF u.kind = "Basic" THEN
        LET basic_user == find_rule(rs, IdBasic(u.username)) IN
        IF is_some(basic_user) /\ is_some(u.password) THEN
            LET a == auth(users, cache, u.username, unwrap(u.password)) IN
            [acl |-> or_else_anon(rs, IF a.result THEN basic_user ELSE None),
             cache |-> a.cache, auth_called |-> TRUE]
        ELSE
            [acl |-> or_else_anon(rs, basic_user), cache |-> cache,
             auth_called |-> FALSE]
    ELSE
        [acl |-> or_else_anon(rs, None), cache |-> cache, auth_called |-> FALSE]

\* Routes::route_path
route_path(base, path) ==
    IF base /= <<>> /\ base[Len(base)] = "/"
    THEN base \o SubSeq(path, 2, Len(path))
    ELSE base \o path

\* handle_proxy_request, `if acl.deny`; login is self.routes.login.path
handle_proxy_request_deny(u, h, login) ==
    IF is_anonymous(u)
    THEN HttpResponse(302, None,
                      Some([path |-> login, redirect_to |-> urlencode(h.uri)]),
                      None, TextBody(""))
    ELSE HttpResponse(401, None, None, None, TextBody("Unauthorized"))

\* the requests the handler of server.rs is given
ServerArrivals == { with_credentials(h, c) : h \in FewHttp, c \in AllCredentials }

\* Ctx::handle_proxy_request from AuthUser::auth and Acls::get to the
\* denial, or to the first await of RpcProxyClient::handle_request
handle_proxy_request ==
    /\ pc = "arrived"
    /\ LET u == auth_user(http.credentials) IN
        IF is_none(u)
        THEN /\ pc' = "panicked"
             /\ UNCHANGED <<verify_cache, user, acl, request, sent, response,
                            auth_called>>
        ELSE
            LET g == acls_get(rules, BasicUsers, verify_cache, unwrap(u))
                leg == IF is_some(g.acl) /\ rules[unwrap(g.acl)].deny
                       THEN Leg("done", None, <<>>,
                                Some(handle_proxy_request_deny(
                                        unwrap(u), http,
                                        route_path(bind, <<"/", "l", "o", "g", "i", "n">>))))
                       ELSE handle_request(http, rules, g.acl)
            IN  /\ user' = unwrap(u)
                /\ acl' = g.acl
                /\ verify_cache' = g.cache
                /\ auth_called' = g.auth_called
                /\ pc' = leg.pc
                /\ request' = leg.request
                /\ sent' = leg.sent
                /\ response' = leg.response
    /\ UNCHANGED <<http, probe, upstream>>
    /\ UNCHANGED config_vars
    /\ UNCHANGED announced
    /\ UNCHANGED client_vars
    /\ UNCHANGED engine_vars

\* forward_rpc_request_acl has the client's body, or the hyper::Error of
\* to_bytes, which handle_proxy_request returns to the connection: no
\* response is sent
server_body_read ==
    /\ pc = "body"
    /\ LET leg == IF http.body.kind = "aborted"
                  THEN Leg("failed", None, <<>>, None)
                  ELSE forward_rpc_request_acl(http, rules[unwrap(acl)])
       IN  /\ pc' = leg.pc
           /\ request' = leg.request
           /\ sent' = leg.sent
           /\ response' = leg.response
    /\ UNCHANGED <<verify_cache, http, user, acl, probe, upstream, auth_called>>
    /\ UNCHANGED config_vars
    /\ UNCHANGED announced
    /\ UNCHANGED client_vars
    /\ UNCHANGED engine_vars

\* the upstream answers the forwarded request; the hyper::Error of a
\* transport failure is returned to the connection, which sends no response
server_upstream_response ==
    /\ pc = "forward"
    /\ \E res \in UpstreamAnswers(sent[Len(sent)]) :
        LET out == IF res.error THEN None ELSE relay(http, rules, acl, request, res) IN
        /\ upstream' = Some(res)
        /\ response' = out
        /\ pc' = IF is_some(out) THEN "done"
                 ELSE IF res.error THEN "failed" ELSE "panicked"
    /\ UNCHANGED <<verify_cache, http, user, acl, request, sent, probe,
                   auth_called>>
    /\ UNCHANGED config_vars
    /\ UNCHANGED announced
    /\ UNCHANGED client_vars
    /\ UNCHANGED engine_vars

NextServer ==
    \/ \E h \in ServerArrivals : receive(h)
    \/ handle_proxy_request
    \/ server_body_read
    \/ \E c \in ConcurrentCalls : concurrent_auth(c[1], c[2])
    \/ probe_response
    \/ server_upstream_response
    \/ Finish

SpecServer == Init /\ [][NextServer]_vars

----------------------------------------------------------------------------
(* The RPC client library (transmission-rpc-client), calling through the proxy *)

\* the calls the library offers: session_get and torrent_get
ClientCalls ==
    {SimpleRequest("session-get", None, None)}
    \cup {SimpleRequest("torrent-get", None, ids) : ids \in {None, Some(Id(1))}}

\* self.client.post(self.rpc_url.clone()), with the session id header if any
post(session_id, body) == HttpRequest(UriRpc, session_id, "", body)

\* HeaderValue::to_str: every byte is visible ASCII or a tab
to_str(v) ==
    IF \A i \in DOMAIN v : (v[i] >= 32 /\ v[i] < 127) \/ v[i] = 9
    THEN Ok(v) ELSE Err("UnicodeError", "")

\* rpc_call, `match self.state` in the NoSession arm: the error the bodiless
\* POST returns with, if any, and the state afterwards
handshake_state(st, resp) ==
    IF resp.error THEN [err |-> "HttpError", state |-> st]
    ELSE IF is_some(resp.session_id) THEN
        LET sid == to_str(unwrap(resp.session_id)) IN
        IF sid.ok THEN [err |-> "", state |-> Some(sid.value)]
        ELSE [err |-> "UnicodeError", state |-> st]
    ELSE [err |-> "", state |-> st]

\* what reqwest's send() gives the library: the proxy's response, or an
\* error when the connection ended without one
client_response == IF pc = "done" THEN unwrap(response) ELSE HyperError

\* how the call returns on the response to its request: rpc_call's decoding
\* with json::<Response>(), in which no variant of the untagged ResponseKind
\* takes arguments that are not an object, its tag check, and the match of
\* the rpc_call! macro
rpc_result(resp, t, c) ==
    IF resp.error \/ resp.body.kind /= "json" \/ ~resp.body.parses THEN "HttpError"
    ELSE IF is_some(resp.body.arguments)
            /\ unwrap(resp.body.arguments).kind = "not-object" THEN "HttpError"
    ELSE IF resp.body.tag /= Some(t) THEN "TagMismatch"
    ELSE IF is_none(resp.body.arguments) THEN "ResponseTypeMismatch"
    ELSE
        LET args == unwrap(resp.body.arguments) IN
        IF \/ c.method = "session-get" /\ args.kind = "session" /\ args.session.complete
           \/ c.method = "torrent-get" /\ args.kind = "torrents"
        THEN "Ok"
        ELSE "ResponseTypeMismatch"

\* rpc_call sends the request of the call, with the session id and the tag
send_request(session_id, c) ==
    /\ arrive(post(session_id, BodyRequest([c EXCEPT !.tag = Some(tag)])))
    /\ tag' = tag + 1
    /\ cpc' = "request"

\* Client::rpc_call is called and runs to its first await
rpc_call(c) ==
    /\ cpc \notin {"handshake", "request"}
    /\ pc = "idle"
    /\ tag - 57680 < MaxCalls
    /\ call' = Some(c)
    /\ handshake' = None
    /\ IF is_none(state)
       THEN /\ arrive(post(None, BodyEmpty))
            /\ cpc' = "handshake"
            /\ UNCHANGED <<state, tag>>
       ELSE /\ send_request(state, c)
            /\ UNCHANGED state
    /\ UNCHANGED engine_vars

\* the connection of the client ends before the proxy has answered: the task
\* of the request is dropped at its await
disconnect ==
    /\ cpc \in {"handshake", "request"}
    /\ pc \in {"arrived", "extracted", "body", "forward"}
    /\ pc' = "dropped"
    /\ response' = None
    /\ UNCHANGED <<verify_cache, http, user, acl, request, sent, probe, upstream,
                   auth_called>>
    /\ UNCHANGED config_vars
    /\ UNCHANGED announced
    /\ UNCHANGED client_vars
    /\ UNCHANGED engine_vars

\* rpc_call gets the response to the bodiless POST, or the error of send():
\* it returns the error, or NoSessionId, or goes on to its request
rpc_call_session ==
    /\ cpc = "handshake"
    /\ pc \in {"done", "panicked", "dropped"}
    /\ LET hs == handshake_state(state, client_response) IN
        /\ handshake' = response
        /\ state' = hs.state
        /\ IF hs.err /= "" \/ is_none(hs.state)
           THEN /\ cpc' = IF hs.err /= "" THEN hs.err ELSE "NoSessionId"
                /\ call' = None
                /\ task_ended
                /\ UNCHANGED tag
           ELSE /\ send_request(hs.state, unwrap(call))
                /\ UNCHANGED call
    /\ UNCHANGED engine_vars

\* rpc_call gets the response to its request, or the error of send(), and
\* returns
rpc_call_response ==
    /\ cpc = "request"
    /\ pc \in {"done", "panicked", "dropped"}
    /\ cpc' = rpc_result(client_response, tag - 1, unwrap(call))
    /\ call' = None
    /\ task_ended
    /\ UNCHANGED <<state, tag, handshake>>
    /\ UNCHANGED engine_vars

NextClient ==
    \/ \E c \in ClientCalls : rpc_call(c)
    \/ rpc_call_session
    \/ rpc_call_response
    \/ disconnect
    \/ extract_user
    \/ proxy_request
    \/ body_read
    \/ upstream_response

SpecClient == Init /\ [][NextClient]_vars

----------------------------------------------------------------------------
(* Properties *)

\* the extractor refused the credentials of the request
rejected ==
    /\ pc = "done"
    /\ response \in {Some(invalid_credentials), Some(invalid_claim),
                     Some(invalid_auth_header)}
    /\ sent = <<>>

\* Acls::get has returned for the identity of the request
resolved ==
    pc \in {"resolved", "body", "probe", "forward", "done", "panicked"} /\ ~rejected

\* the mediator handles the request as an RPC request under a matched rule
handled_under_acl ==
    /\ pc \in {"probe", "forward", "done", "panicked"}
    /\ is_some(acl)
    /\ ~rules[unwrap(acl)].deny
    /\ is_rpc(http.uri)
    /\ http.body.kind = "request"

\* the RPC request the client sent, and the matched rule
client_request == unwrap(http.body.request)
matched_acl == rules[unwrap(acl)]

\* the allow-list of the matched rule leaves the method of the request out
outside_allow_list ==
    /\ handled_under_acl
    /\ matched_acl.allowed_methods /= {}
    /\ client_request.method \notin matched_acl.allowed_methods

\* C1: a request whose method the non-empty allow-list of the matched rule
\* does not contain is answered 403 with result "access denied" and the
\* request's tag, and nothing is sent upstream for it, neither a probe nor
\* the request itself, whatever the other checks of the filter would say.
C1_AllowListForbidden ==
    outside_allow_list =>
        /\ pc = "done"
        /\ sent = <<>>
        /\ probe = None
        /\ upstream = None
        /\ response = Some(HttpResponse(403, None, None, None,
                                        JsonBody(TRUE, client_request.tag, None,
                                                 "access denied")))

\* a target-set call outside the allow-list, under a rule that also forces a
\* download_dir, has been answered
C1_Witness ==
    /\ outside_allow_list
    /\ pc = "done"
    /\ is_some(matched_acl.download_dir)
    /\ client_request.method = "torrent-start"
    /\ is_some(client_request.tag)
    /\ unwrap(response).status = 403

\* the target-set methods
TargetSetMethods == TorrentActionMethods \cup {"torrent-remove", "torrent-set"}

\* the ids of the torrents of a list
ids_of(torrents) == [i \in DOMAIN torrents |-> torrents[i].id]

\* the request has been forwarded after its target-set probe was answered
forwarded_after_probe ==
    /\ handled_under_acl
    /\ is_some(matched_acl.download_dir)
    /\ is_some(probe)
    /\ Len(sent) = 2

\* C2: under a rule with download_dir = D, the ids of a forwarded target-set
\* request are the explicit list of exactly the torrents of the probe's
\* response whose downloadDir, a trailing '/' stripped, has prefix D.
C2_ForwardedIdsInsideDir ==
    (forwarded_after_probe /\ client_request.method \in TargetSetMethods) =>
        LET survivors ==
                SelectSeq(unwrap(unwrap(probe).body.arguments).torrents,
                          LAMBDA t : in_download_dir(t, unwrap(matched_acl.download_dir)))
        IN  unwrap(sent[2].body.request).ids = Some(Ids(ids_of(survivors)))

\* the torrents a body holds
torrents_in(body) ==
    IF is_some(body.arguments) THEN unwrap(body.arguments).torrents ELSE <<>>

\* a downloadDir that, stripped of a trailing '/', begins with D
begins_with_dir(dir, D) ==
    starts_with(IF dir /= <<>> /\ dir[Len(dir)] = "/" THEN SubSeq(dir, 1, Len(dir) - 1) ELSE dir, D)

\* a torrent-get call under a rule with a download_dir has been answered
torrent_get_answered ==
    /\ handled_under_acl
    /\ is_some(matched_acl.download_dir)
    /\ client_request.method = "torrent-get"
    /\ pc = "done"

\* every torrent of the body returned to the client is inside D
returned_torrents_inside ==
    \A t \in Range(torrents_in(unwrap(response).body)) :
        begins_with_dir(t.downloadDir, unwrap(matched_acl.download_dir))

\* the upstream answered 409, or with a body that is no RPC response
relayed_unchanged(res) == ~res.error /\ (res.status = 409 \/ ~res.body.parses)

\* C3 as claimed: for a torrent-get under download_dir = D every torrent of
\* the body returned to the client has a downloadDir beginning with D, for
\* every upstream response, those the mediator cannot parse included.
C3_EveryResponseFiltered ==
    torrent_get_answered => returned_torrents_inside

\* C3 as amended: for a torrent-get under download_dir = D every torrent of
\* the body returned to the client has a downloadDir beginning with D,
\* unless the upstream answered 409 or with a body that does not parse as
\* an RPC response: those are relayed unchanged.
C3_ParsedResponseFiltered ==
    (torrent_get_answered /\ is_some(upstream) /\ ~relayed_unchanged(unwrap(upstream)))
        => returned_torrents_inside

\* a parsed torrent-get response holding a torrent outside D was filtered
C3_Witness ==
    /\ torrent_get_answered
    /\ is_some(upstream)
    /\ ~relayed_unchanged(unwrap(upstream))
    /\ \E t \in Range(torrents_in(unwrap(upstream).body)) :
          ~begins_with_dir(t.downloadDir, unwrap(matched_acl.download_dir))
    /\ torrents_in(unwrap(response).body) /= <<>>

\* the mediator returned an RPC response to a request that carries a tag
rpc_response_to_tagged ==
    /\ handled_under_acl
    /\ pc = "done"
    /\ is_some(client_request.tag)
    /\ unwrap(response).body.kind = "json"
    /\ unwrap(response).body.parses

\* C4: the RPC response returned to a request that carries a tag T carries
\* the tag T, for every method and every matched rule, also when the
\* upstream's response has no tag or another one.
C4_ResponseCarriesRequestTag ==
    rpc_response_to_tagged => unwrap(response).body.tag = client_request.tag

\* a torrent-add under a rule with a download_dir has passed the allow-list
torrent_add_under_dir ==
    /\ handled_under_acl
    /\ ~outside_allow_list
    /\ is_some(matched_acl.download_dir)
    /\ client_request.method = "torrent-add"

\* C5: a torrent-add under download_dir = D is rejected with Forbidden and
\* not forwarded if and only if its download_dir neither starts with D
\* followed by '/' nor equals D; a forwarded torrent-add carries the
\* download_dir of the request.
C5_TorrentAddPrefix ==
    torrent_add_under_dir =>
        LET D == unwrap(matched_acl.download_dir)
            dir == client_request.download_dir
            ok == starts_with(dir, D \o <<"/">>) \/ dir = D
            forbidden == /\ pc = "done"
                         /\ sent = <<>>
                         /\ unwrap(response).status = 403
        IN  /\ forbidden <=> ~ok
            /\ sent /= <<>> => unwrap(sent[1].body.request).download_dir = dir

\* the upstream's answers, to the probe and to the forwarded request, that
\* are HTTP 409
conflicts ==
    {res \in Range(probe) \cup Range(upstream) : ~res.error /\ res.status = 409}

\* C6: when the upstream answers 409 to a request the proxy sent while
\* serving an RPC call, the target-set probe included, the client receives
\* that 409 with its X-Transmission-Session-Id header, not an RPC failure.
C6_ConflictRelayed ==
    (handled_under_acl /\ pc = "done") =>
        \A res \in conflicts :
            /\ unwrap(response).status = 409
            /\ unwrap(response).session_id = res.session_id

\* the bodiless POST of the running call was answered 409 with a session id
handshake_conflict(resp) ==
    /\ is_some(resp)
    /\ ~unwrap(resp).error
    /\ unwrap(resp).status = 409
    /\ is_some(unwrap(resp).session_id)

\* the requests of the clients of the session handshake: RPC requests that
\* need no probe, with and without a session id header
SessionArrivals ==
    { with_credentials(
          HttpRequest(UriRpc, sid, "other", BodyRequest(SimpleRequest(m, Some(1), None))), c) :
        sid \in {None} \cup {Some(s) : s \in SessionIds},
        m \in {"torrent-get", "session-get"},
        c \in FewCredentials }

\* the upstream answers the forwarded request, and the history keeps the
\* session id when the answer is a 409 that announces one
session_upstream_response ==
    /\ pc = "forward"
    /\ \E res \in UpstreamAnswers(sent[Len(sent)]) :
          /\ upstream_answers(res)
          /\ announced' = IF handshake_conflict(Some(res)) THEN res.session_id ELSE None

NextSession ==
    \/ \E h \in SessionArrivals : receive(h)
    \/ extract_user
    \/ proxy_request
    \/ body_read
    \/ session_upstream_response
    \/ Finish

SpecSession == Init /\ [][NextSession]_vars

\* C7: a 409 of the upstream with X-Transmission-Session-Id: S is relayed to
\* the client as it is, and the next request forwarded upstream after it
\* carries the header X-Transmission-Session-Id: S, the token held since the
\* 409.
C7_TokenHeldAfterConflict ==
    /\ pc = "done" /\ handshake_conflict(upstream) => response = upstream
    /\ pc = "forward" /\ is_some(announced) => sent[Len(sent)].session_id = announced

\* the matched rule of the request denies
denied == resolved /\ is_some(acl) /\ matched_acl.deny

\* the login path of each --bind path, written out
expected_login_path ==
    IF bind = BindDefault
    THEN <<"/", "t", "r", "a", "n", "s", "m", "i", "s", "s", "i", "o", "n",
           "/", "l", "o", "g", "i", "n">>
    ELSE IF bind = <<"/", "t", "/">> THEN <<"/", "t", "/", "l", "o", "g", "i", "n">>
    ELSE <<"/", "l", "o", "g", "i", "n">>

\* the URI of the request as a query value, written out
expected_redirect_to ==
    IF http.uri = UriRpc THEN <<"%2F", "r", "p", "c">> ELSE <<"%2F", "w", "%2F">>

\* the response redirects to the login path, with the original URI as the
\* redirect_to query
redirects_to_login(resp, status) ==
    /\ resp.status = status
    /\ is_some(resp.location)
    /\ unwrap(resp.location).path = expected_login_path
    /\ unwrap(resp.location).redirect_to = expected_redirect_to

\* the response is 401 with the body "Unauthorized"
unauthorized(resp) == resp.status = 401 /\ resp.body = TextBody("Unauthorized")

\* C8: under a rule with deny = true nothing is sent upstream; an
\* anonymous user gets HTTP 302 to the login path with the original URI as
\* redirect_to, whatever the other headers of the request; an authenticated
\* user gets HTTP 401 with body "Unauthorized".
C8_DenyRedirectsAnonymous ==
    denied =>
        /\ pc = "done" /\ sent = <<>> /\ probe = None /\ upstream = None
        /\ IF is_anonymous(user)
           THEN redirects_to_login(unwrap(response), 302)
           ELSE unauthorized(unwrap(response))

\* a session-get under a rule with a download_dir was answered by the
\* upstream with an RPC response that has session arguments
session_get_answered ==
    /\ handled_under_acl
    /\ is_some(matched_acl.download_dir)
    /\ client_request.method = "session-get"
    /\ pc = "done"
    /\ is_some(upstream)
    /\ ~unwrap(upstream).error
    /\ ~relayed_unchanged(unwrap(upstream))
    /\ is_some(unwrap(upstream).body.arguments)
    /\ unwrap(unwrap(upstream).body.arguments).kind = "session"

\* C9: the session returned for a session-get under download_dir = D has
\* download-dir = D, whatever the upstream reported, and every other field
\* of it equals the upstream's.
C9_SessionDownloadDirForced ==
    session_get_answered =>
        LET theirs == unwrap(unwrap(upstream).body.arguments).session
            body == unwrap(response).body
        IN  /\ is_some(body.arguments)
            /\ unwrap(body.arguments).kind = "session"
            /\ unwrap(body.arguments).session =
                  [theirs EXCEPT !.download_dir = unwrap(matched_acl.download_dir)]

\* Acls::get applied on its own to any identity, one that presents a
\* password the provider was never asked about included
resolve(u) ==
    /\ pc = "idle"
    /\ LET g == get(rules, BasicUsers, verify_cache, u) IN
        /\ acl' = g.acl
        /\ verify_cache' = g.cache
        /\ auth_called' = g.auth_called
    /\ user' = u
    /\ pc' = "resolved"
    /\ UNCHANGED <<http, request, sent, probe, upstream, response>>
    /\ UNCHANGED config_vars
    /\ UNCHANGED announced
    /\ UNCHANGED client_vars
    /\ UNCHANGED engine_vars

\* the caller has taken the rule
resolve_return ==
    /\ pc = "resolved"
    /\ task_ended
    /\ UNCHANGED client_vars
    /\ UNCHANGED engine_vars

NextAcl ==
    \/ \E u \in AuthUsers : resolve(u)
    \/ resolve_return
    \/ \E c \in ConcurrentCalls : concurrent_auth(c[1], c[2])

SpecAcl == Init /\ [][NextAcl]_vars

\* the rules that name Basic{username}, and the anonymous default rules
basic_rules(username) ==
    {i \in DOMAIN rules :
        [provider |-> "basic", name |-> username, oauth2 |-> ""] \in rules[i].identities}
anonymous_rules == {i \in DOMAIN rules : rules[i].identities = {}}

\* the first rule of a non-empty set of rules
first_of(S) == CHOOSE i \in S : \A j \in S : i <= j

\* a Basic identity that a rule names has been resolved
basic_resolved ==
    /\ resolved
    /\ user.kind = "Basic"
    /\ basic_rules(user.username) /= {}

\* the Basic provider refuses the credentials presented: a failed
\* authentication leaves the verify cache as it was
authenticate_fails ==
    ~auth(BasicUsers, verify_cache, user.username, unwrap(user.password)).result

\* C10: resolving a Basic identity that a rule names: with a password the
\* provider refuses, the result is the anonymous default rule if there is
\* one and None otherwise, never a rule naming the identity; without a
\* password, the result is the first rule naming the identity and the
\* provider is not called.
C10_BasicFailureFallsBack ==
    basic_resolved =>
        IF is_some(user.password)
        THEN authenticate_fails =>
                /\ acl = IF anonymous_rules /= {} THEN Some(first_of(anonymous_rules))
                         ELSE None
                /\ \A i \in Range(acl) : i \notin basic_rules(user.username)
        ELSE /\ acl = Some(first_of(basic_rules(user.username)))
             /\ ~auth_called

\* alice, named by a rule, presented a wrong password and got the anonymous
\* default rule
C10_Witness ==
    /\ basic_resolved
    /\ is_some(user.password)
    /\ authenticate_fails
    /\ auth_called
    /\ is_some(acl)
    /\ anonymous_rules /= {}

\* the rules that hold a matcher for the identity of the request: Basic by
\* name, OAuth2 by name and provider, none for Anonymous
matching_rules ==
    CASE user.kind = "Basic" -> basic_rules(user.username)
      [] user.kind = "OAuth2" ->
            {i \in DOMAIN rules :
                [provider |-> "oauth2", name |-> user.username, oauth2 |-> user.provider]
                    \in rules[i].identities}
      [] OTHER -> {}

\* the result is None, the first rule holding a matcher for the identity, or,
\* when no rule holds one, the first rule with an empty identity set
first_match_or_default ==
    \/ acl = None
    \/ matching_rules /= {} /\ acl = Some(first_of(matching_rules))
    \/ /\ matching_rules = {}
       /\ anonymous_rules /= {}
       /\ acl = Some(first_of(anonymous_rules))

\* an Anonymous identity is not given a rule that names identities
anonymous_gets_default ==
    is_anonymous(user) => \A i \in Range(acl) : rules[i].identities = {}

\* C11 as claimed: resolve returns None, or the first rule in declaration
\* order that holds a matcher for the identity, or, when no rule holds one,
\* the first rule whose identity set is empty; an Anonymous identity is never
\* given a rule whose identity set is non-empty.
C11_FirstMatchWins ==
    resolved => first_match_or_default /\ anonymous_gets_default

\* C11 as amended: as claimed, or, for a Basic identity whose password the
\* provider refuses, the first rule whose identity set is empty although a
\* rule names the identity.
C11_FirstMatchOrRefused ==
    resolved =>
        /\ \/ first_match_or_default
           \/ /\ user.kind = "Basic"
              /\ is_some(user.password)
              /\ authenticate_fails
              /\ anonymous_rules /= {}
              /\ acl = Some(first_of(anonymous_rules))
        /\ anonymous_gets_default

\* an identity that two rules name was given the first of them
C11_Witness ==
    /\ resolved
    /\ Cardinality(matching_rules) = 2
    /\ acl = Some(first_of(matching_rules))

\* a URL through the rules, each on the output of the one before
RECURSIVE rewritten(_, _)
rewritten(url, tracker_rules) ==
    IF tracker_rules = <<>> THEN url
    ELSE rewritten(replace(url, Head(tracker_rules).from, Head(tracker_rules).to),
                   Tail(tracker_rules))

\* a torrent-add under a matched rule has been forwarded
torrent_add_forwarded ==
    /\ handled_under_acl
    /\ client_request.method = "torrent-add"
    /\ sent /= <<>>

\* C12: the metainfo of a forwarded torrent-add: with tracker rules and a
\* metainfo that decodes, its announce is the original through the rule
\* list, each inner announce-list is the original with each URL rewritten in
\* place, and the other keys are the original's; with no tracker rules it
\* is the metainfo argument of the request.
C12_MetainfoRewritten ==
    torrent_add_forwarded =>
        LET orig == client_request.metainfo
            fwd == unwrap(sent[1].body.request).metainfo
            rs == matched_acl.tracker_rules
        IN  IF rs = <<>> THEN fwd = orig
            ELSE /\ orig.kind = "torrent"
                 /\ fwd.kind = "torrent"
                 /\ fwd.torrent.announce =
                        [i \in DOMAIN orig.torrent.announce |->
                            rewritten(orig.torrent.announce[i], rs)]
                 /\ fwd.torrent.announce_list =
                        [i \in DOMAIN orig.torrent.announce_list |->
                            [j \in DOMAIN orig.torrent.announce_list[i] |->
                                [k \in DOMAIN orig.torrent.announce_list[i][j] |->
                                    rewritten(orig.torrent.announce_list[i][j][k], rs)]]]
                 /\ fwd.torrent.rest = orig.torrent.rest

\* a torrent-add whose announce and announce-list the rules rewrite has
\* been forwarded
C12_Witness ==
    /\ torrent_add_forwarded
    /\ matched_acl.tracker_rules /= <<>>
    /\ client_request.metainfo.torrent.announce = Some(UrlOld)
    /\ unwrap(sent[1].body.request).metainfo.torrent.announce = Some(<<"m", "x">>)
    /\ unwrap(sent[1].body.request).metainfo.torrent.announce_list
          = Some(<< <<(<<"m", "x">>), UrlKeep>> >>)

\* a request is being handled with no rule resolved for its identity
no_rule_resolved == resolved /\ is_none(acl)

\* C13: when no ACL rule is resolved, the request goes upstream with its
\* body as received, without parsing, allow-list or prefix check and without
\* a target-set probe, and the upstream's response is returned as it is.
C13_NoRuleNoFiltering ==
    no_rule_resolved =>
        /\ pc /= "probe"
        /\ is_none(probe)
        /\ is_none(request)
        /\ sent = <<http>>
        /\ pc /= "panicked"
        /\ pc = "done" =>
              \/ unwrap(upstream).error /\ response = Some(internal_error)
              \/ ~unwrap(upstream).error /\ response = upstream

\* an RPC request was answered with no rule resolved although rules exist
C13_Witness ==
    /\ no_rule_resolved
    /\ rules /= <<>>
    /\ is_rpc(http.uri)
    /\ http.body.kind = "request"
    /\ unwrap(http.body.request).method = "torrent-add"
    /\ pc = "done"
    /\ ~unwrap(upstream).error
    /\ response = upstream

\* a queue move under a rule with a download_dir has gone upstream
queue_move_forwarded ==
    /\ handled_under_acl
    /\ is_some(matched_acl.download_dir)
    /\ client_request.method \in QueueMethods
    /\ pc \in {"forward", "done"}
    /\ sent /= <<>>

\* C14: a queue move under a rule with download_dir = D is forwarded only
\* after a target-set probe, and its forwarded ids are the explicit list of
\* the probed torrents inside D.
C14_QueueMoveExpanded ==
    queue_move_forwarded =>
        /\ is_some(probe)
        /\ Len(sent) = 2
        /\ LET survivors ==
                   SelectSeq(unwrap(unwrap(probe).body.arguments).torrents,
                             LAMBDA t : in_download_dir(t, unwrap(matched_acl.download_dir)))
           IN  unwrap(sent[Len(sent)].body.request).ids = Some(Ids(ids_of(survivors)))

\* the failures of the filters: the string and the HTTP status of each kind
FilterFailures ==
    { <<"Unsupported", "unsupported: magnet links", 501>>,
      <<"Unsupported", "unsupported: trackerReplace in torrent-set", 501>>,
      <<"Forbidden", "access denied", 403>>,
      <<"Torrent", "torrent error", 400>>,
      <<"Base64", "base64 error", 400>>,
      <<"ParseBody", "could not parse request body", 400>>,
      <<"Serde", "could not decode body", 500>>,
      <<"Upstream", "upstream error", 503>>,
      <<"UpstreamUnknown", "unknown upstream error", 502>> }

\* the RPC failure of a kind with a tag, as an HTTP response
rpc_failure(t, failure) ==
    HttpResponse(failure[3], None, None, None, JsonBody(TRUE, t, None, failure[2]))

\* an RPC request under a matched rule, whose body was read, ended before
\* an upstream answered the request itself: the request filter failed
request_filter_failed ==
    /\ pc = "done"
    /\ http.body.kind /= "aborted"
    /\ is_some(acl)
    /\ ~matched_acl.deny
    /\ is_rpc(http.uri)
    /\ is_none(upstream)

\* the response filter failed on the upstream's answer
response_filter_failed ==
    /\ pc = "done"
    /\ handled_under_acl
    /\ is_some(upstream)
    /\ ~unwrap(upstream).error
    /\ unwrap(upstream).status /= 409
    /\ unwrap(upstream).body.parses
    /\ ~do_filter_response(unwrap(request), unwrap(upstream).body, matched_acl).ok

\* C15: a failure of the request filter or of the response filter is
\* answered as an RPC failure with the tag of the original request (none
\* for ParseBody, raised exactly when the body does not parse), the string
\* of its kind as result and the HTTP status of its kind; after a failure of
\* the request filter nothing but a probe has been sent upstream.
C15_FilterFailureAnswer ==
    /\ request_filter_failed =>
          /\ \E failure \in FilterFailures :
                /\ response = Some(rpc_failure(tag_of(http), failure))
                /\ failure[1] = "ParseBody" <=> http.body.kind /= "request"
          /\ Len(sent) = IF is_some(probe) THEN 1 ELSE 0
          /\ \A i \in DOMAIN sent :
                /\ unwrap(sent[i].body.request).method = "torrent-get"
                /\ sent[i].body /= http.body
    /\ response_filter_failed =>
          \E failure \in FilterFailures :
              response = Some(rpc_failure(client_request.tag, failure))

\* a tagged request was refused with Forbidden after its target-set probe
C15_Witness ==
    /\ request_filter_failed
    /\ is_some(probe)
    /\ client_request.tag = Some(1)
    /\ response = Some(rpc_failure(Some(1), <<"Forbidden", "access denied", 403>>))

\* a message sent upstream that is a torrent-get call, which only reads
read_only(m) ==
    /\ m.body.kind = "request"
    /\ unwrap(m.body.request).method = "torrent-get"

\* C16: of the messages sent upstream for one client request at most one
\* is not a read-only torrent-get, at most two are sent at all, the first of
\* two is the untagged torrent-get probe, and once the upstream has answered
\* the request, with a 409 or an error as well, the handling is over and
\* nothing more is sent.
C16_AtMostOnce ==
    /\ Cardinality({i \in DOMAIN sent : ~read_only(sent[i])}) <= 1
    /\ Len(sent) <= 2
    /\ Len(sent) = 2 =>
          /\ read_only(sent[1])
          /\ unwrap(sent[1].body.request).tag = None
          /\ unwrap(sent[2].body.request).tag = client_request.tag
    /\ is_some(upstream) => pc \in {"done", "panicked"} /\ Len(sent) >= 1
    /\ (is_some(probe) /\ pc = "done" /\ is_none(upstream)) => Len(sent) = 1

\* a torrent-remove went upstream once after its probe and was answered 409
C16_Witness ==
    /\ handled_under_acl
    /\ client_request.method = "torrent-remove"
    /\ Len(sent) = 2
    /\ ~read_only(sent[2])
    /\ pc = "done"
    /\ unwrap(upstream).status = 409
    /\ response = upstream

\* C17: when the library holds a session token and the request of its call
\* is answered 409 with a session id S', the token cell holds S' once the
\* call has returned.
C17_TokenRefreshed ==
    [][(/\ cpc = "request"
        /\ pc = "done"
        /\ is_some(state)
        /\ handshake_conflict(response)
        /\ cpc' /= "request")
       => state' = unwrap(response).session_id]_vars

\* an RPC request is being handled under a matched rule that is a no-op
handled_under_nop ==
    /\ pc /= "idle"
    /\ is_some(acl)
    /\ is_nop(matched_acl)
    /\ is_rpc(http.uri)

\* C18: under a matched no-op rule the RPC request goes upstream with its
\* body as received, whether or not the body parses as a known Request, and
\* is never answered with ParseBody.
C18_NopRuleSkipsParsing ==
    handled_under_nop =>
        /\ sent = <<http>>
        /\ pc = "done" =>
              response /= Some(rpc_failure(None, <<"ParseBody", "could not parse request body", 400>>))

\* a torrent-set with a location, or a torrent-set-location, under a rule
\* with a download_dir has passed the allow-list
location_call_under_dir ==
    /\ handled_under_acl
    /\ ~outside_allow_list
    /\ is_some(matched_acl.download_dir)
    /\ client_request.method \in {"torrent-set", "torrent-set-location"}
    /\ is_some(client_request.location)

\* the target-set probe was answered with a list of torrents
probe_answered_torrents ==
    /\ is_some(probe)
    /\ ~unwrap(probe).error
    /\ unwrap(probe).body.parses
    /\ is_some(unwrap(probe).body.arguments)
    /\ unwrap(unwrap(probe).body.arguments).kind = "torrents"

\* C19: for a torrent-set with a location and for a torrent-set-location
\* under download_dir = D: a location that neither starts with D followed
\* by '/' nor equals D is refused with Forbidden (403) once the probe is
\* answered and is never forwarded; a location that is prefix-ok is not
\* refused with Forbidden and is forwarded as the request has it.
C19_LocationPrefix ==
    location_call_under_dir =>
        LET D == unwrap(matched_acl.download_dir)
            location == unwrap(client_request.location)
            ok == starts_with(location, D \o <<"/">>) \/ location = D
            forbidden == response = Some(rpc_failure(client_request.tag,
                                                     <<"Forbidden", "access denied", 403>>))
        IN  /\ ~ok => /\ Len(sent) <= 1
                      /\ (pc = "done" /\ probe_answered_torrents) => forbidden
            /\ ok => /\ ~forbidden
                     /\ Len(sent) = 2 =>
                           unwrap(sent[2].body.request).location = client_request.location

\* a torrent-set with a non-empty trackerReplace under a matched rule has
\* passed the allow-list
tracker_replace_call ==
    /\ handled_under_acl
    /\ ~outside_allow_list
    /\ client_request.method = "torrent-set"
    /\ client_request.tracker_replace /= <<>>

\* the response is the Unsupported failure of trackerReplace
unsupported_tracker_replace ==
    response = Some(rpc_failure(client_request.tag,
                                <<"Unsupported", "unsupported: trackerReplace in torrent-set", 501>>))

\* the request itself, not only its probe, has been sent upstream
request_forwarded == Len(sent) > (IF is_some(matched_acl.download_dir) THEN 1 ELSE 0)

\* C20 as stated: a torrent-set with a non-empty trackerReplace is answered
\* Unsupported (501) and not forwarded under every matched rule that passes
\* the allow-list, with or without tracker rules.
C20_TrackerReplaceUnsupported ==
    tracker_replace_call =>
        /\ ~request_forwarded
        /\ pc = "done" => unsupported_tracker_replace

\* C20, amended: under a matched rule with tracker rules a torrent-set with
\* a non-empty trackerReplace is never forwarded, and it is answered
\* Unsupported (501) unless the target-set probe failed or its location
\* failed the prefix check before.
C20_TrackerReplaceUnsupportedUnderRules ==
    (tracker_replace_call /\ matched_acl.tracker_rules /= <<>>) =>
        /\ ~request_forwarded
        /\ pc = "done" =>
              \/ unsupported_tracker_replace
              \/ /\ is_some(matched_acl.download_dir)
                 /\ ~probe_answered_torrents
                 /\ \E failure \in FilterFailures :
                       /\ failure[1] \in {"Serde", "Upstream", "UpstreamUnknown"}
                       /\ response = Some(rpc_failure(client_request.tag, failure))
              \/ /\ is_some(matched_acl.download_dir)
                 /\ is_some(client_request.location)
                 /\ ~starts_with(unwrap(client_request.location),
                                 unwrap(matched_acl.download_dir) \o <<"/">>)
                 /\ response = Some(rpc_failure(client_request.tag,
                                                <<"Forbidden", "access denied", 403>>))

\* a torrent-set with trackerReplace was answered Unsupported after its
\* probe, under a rule with a download_dir and tracker rules
C20_Witness ==
    /\ tracker_replace_call
    /\ matched_acl.tracker_rules /= <<>>
    /\ is_some(matched_acl.download_dir)
    /\ probe_answered_torrents
    /\ pc = "done"
    /\ Len(sent) = 1
    /\ unsupported_tracker_replace

\* a target-set probe has been sent for the request being handled
probe_sent == pc = "probe" \/ is_some(probe)

\* C21: within a call for which a target-set probe is sent, the probe goes
\* to the URI of the request with the client's headers, session token
\* included, as a torrent-get of id and downloadDir for the request's
\* selector; while its response is awaited nothing else has been sent, and
\* the filtered request is forwarded only after a probe whose response was
\* received and held a list of torrents.
C21_ProbeBeforeForward ==
    /\ pc = "probe" => handled_under_acl /\ is_none(probe) /\ Len(sent) = 1
    /\ is_some(probe) => handled_under_acl /\ Len(sent) >= 1
    /\ probe_sent =>
          /\ sent[1].uri = http.uri
          /\ sent[1].session_id = http.session_id
          /\ sent[1].user_agent = http.user_agent
          /\ unwrap(sent[1].body.request).method = "torrent-get"
          /\ unwrap(sent[1].body.request).ids = client_request.ids
          /\ unwrap(sent[1].body.request).fields = <<"id", "downloadDir">>
          /\ Len(sent) = 2 => probe_answered_torrents

\* a request with a session token was forwarded after its probe, sent with
\* the same token, had been answered
C21_Witness ==
    /\ probe_answered_torrents
    /\ Len(sent) = 2
    /\ http.session_id = Some(S1)
    /\ sent[1].session_id = Some(S1)
    /\ client_request.method = "torrent-remove"
    /\ unwrap(sent[2].body.request).method = "torrent-remove"

\* the target-set probe was answered, and not with a list of torrents
probe_failed == is_some(probe) /\ ~probe_answered_torrents

\* C22 as stated: when the target-set probe fails in any way, the call
\* fails with UpstreamUnknown (502, "unknown upstream error", the request's
\* tag) and the request is not forwarded.
C22_ProbeFailureUnknown ==
    probe_failed =>
        /\ pc = "done"
        /\ Len(sent) = 1
        /\ response = Some(rpc_failure(client_request.tag,
                                       <<"UpstreamUnknown", "unknown upstream error", 502>>))

\* C22, amended: when the target-set probe fails, the call fails with the
\* kind of the failure and the request's tag, Upstream (503) on a transport
\* error, Serde (500) on a response that does not parse or whose arguments
\* hold no list of torrents, UpstreamUnknown (502) on a response without
\* arguments, and the request is not forwarded.
C22_ProbeFailureByKind ==
    probe_failed =>
        LET res == unwrap(probe)
            failure ==
                IF res.error THEN <<"Upstream", "upstream error", 503>>
                ELSE IF ~res.body.parses THEN <<"Serde", "could not decode body", 500>>
                ELSE IF is_none(res.body.arguments)
                THEN <<"UpstreamUnknown", "unknown upstream error", 502>>
                ELSE <<"Serde", "could not decode body", 500>>
        IN  /\ pc = "done"
            /\ Len(sent) = 1
            /\ response = Some(rpc_failure(client_request.tag, failure))

\* the probe of a tagged request met a transport error and the call was
\* answered 503
C22_Witness ==
    /\ probe_failed
    /\ unwrap(probe).error
    /\ client_request.tag = Some(1)
    /\ Len(sent) = 1
    /\ unwrap(response).status = 503
    /\ unwrap(response).body.tag = Some(1)

\* a torrent-rename-path under a matched rule has passed the allow-list
rename_path_call ==
    /\ handled_under_acl
    /\ ~outside_allow_list
    /\ client_request.method = "torrent-rename-path"

\* C23 as stated: a torrent-rename-path under a matched rule that passes
\* the allow-list, with or without download_dir, is forwarded as the client
\* sent it and no probe is issued for it.
C23_RenamePathPassThrough ==
    rename_path_call =>
        /\ ~probe_sent
        /\ sent = <<http>>

\* C23, amended: without a download_dir a torrent-rename-path is forwarded
\* as the client sent it and no probe is issued; with a download_dir its
\* target set is expanded by a probe like that of the other target-set
\* methods, and the forwarded request differs from the client's in its ids
\* only.
C23_RenamePathArguments ==
    rename_path_call =>
        IF is_none(matched_acl.download_dir)
        THEN ~probe_sent /\ sent = <<http>>
        ELSE /\ probe_sent
             /\ Len(sent) = 2 =>
                   /\ sent[2] = forward(http, sent[2].body)
                   /\ unwrap(sent[2].body.request) =
                         [client_request EXCEPT !.ids = unwrap(sent[2].body.request).ids]
                   /\ unwrap(sent[2].body.request).path = <<"f">>
                   /\ unwrap(sent[2].body.request).name = "g"

\* a torrent-rename-path under a download_dir went upstream after its probe
\* with other ids than the client's
C23_Witness ==
    /\ rename_path_call
    /\ is_some(matched_acl.download_dir)
    /\ Len(sent) = 2
    /\ client_request.ids = Some(Id(1))
    /\ unwrap(sent[2].body.request).ids /= client_request.ids
    /\ unwrap(sent[2].body.request).path = client_request.path

\* a torrent-get or a session-level call is handled under a rule with a
\* download_dir
get_or_session_call_under_dir ==
    /\ handled_under_acl
    /\ is_some(matched_acl.download_dir)
    /\ client_request.method \in {"torrent-get"} \cup SessionMethods

\* C24: for torrent-get and the session-level methods under a rule with a
\* download_dir no probe is sent, and what is forwarded is the client's
\* request, ids included; it is forwarded whenever the allow-list lets the
\* method through.
C24_NoProbeForGetAndSession ==
    get_or_session_call_under_dir =>
        /\ ~probe_sent
        /\ \A i \in DOMAIN sent : sent[i] = http
        /\ Len(sent) = IF outside_allow_list THEN 0 ELSE 1

\* a torrent-get of one id under a download_dir was forwarded as sent and
\* answered
C24_Witness ==
    /\ get_or_session_call_under_dir
    /\ client_request.method = "torrent-get"
    /\ client_request.ids = Some(Id(1))
    /\ sent = <<http>>
    /\ pc = "done"
    /\ is_some(upstream)

----------------------------------------------------------------------------
(* The tracker rule engine on its own: filter_tracker and                  *)
(* filter_tracker_list applied to rule lists and URLs                      *)

\* the longest rule list and the longest URL list applied
MaxRules == 2
MaxUrls == 2

\* the rules and the URLs they are applied to
EngineRules ==
    {Replace(<<"o">>, <<"n">>), Replace(<<"n">>, <<"m">>), Replace(<<"x">>, <<>>)}
EngineUrls == {UrlOld, UrlNew, UrlKeep}

\* the sequences over S of length n at most
SeqsUpTo(S, n) == UNION {[1..k -> S] : k \in 0..n}

TrackerInputs ==
    { [pc |-> "input", rules |-> rs, list |-> l, url |-> u,
       out_list |-> <<>>, out_url |-> None] :
        rs \in SeqsUpTo(EngineRules, MaxRules),
        l \in SeqsUpTo(EngineUrls, MaxUrls),
        u \in {None} \cup {Some(x) : x \in EngineUrls} }

InitTrackers ==
    /\ rules = <<>>
    /\ bind = BindDefault
    /\ enabled = TRUE
    /\ verify_cache = [n \in CacheKeys |-> None]
    /\ pc = "idle"
    /\ http = NoHttp
    /\ user = Anonymous
    /\ acl = None
    /\ request = None
    /\ sent = <<>>
    /\ probe = None
    /\ upstream = None
    /\ response = None
    /\ auth_called = FALSE
    /\ state = None
    /\ tag = 57680
    /\ cpc = "idle"
    /\ call = None
    /\ handshake = None
    /\ tasks = [t \in Tasks |-> IdleTask]
    /\ lock = None
    /\ trackers \in TrackerInputs
    /\ announced = None

\* filter_tracker on the URL and filter_tracker_list on the list
filter_trackers ==
    /\ trackers.pc = "input"
    /\ trackers' =
          [trackers EXCEPT
              !.pc = "filtered",
              !.out_url = filter_tracker(trackers.url, trackers.rules),
              !.out_list = filter_tracker_list(trackers.list, trackers.rules)]
    /\ UNCHANGED <<verify_cache, pc, http, user, acl, request, sent, probe,
                   upstream, response, auth_called>>
    /\ UNCHANGED config_vars
    /\ UNCHANGED announced
    /\ UNCHANGED client_vars
    /\ UNCHANGED auth_vars

NextTrackers == filter_trackers

SpecTrackers == InitTrackers /\ [][NextTrackers]_vars

\* the URL after the first n rules of a list: the n-th rule on what the
\* rules before it gave
RECURSIVE composed(_, _, _)
composed(url, rs, n) ==
    IF n = 0 THEN url
    ELSE replace(composed(url, rs, n - 1), rs[n].from, rs[n].to)

\* C25: a rule list applied to a URL gives the left-to-right composition of
\* its rules, each on the output of the one before, and an absent URL
\* stays absent whatever the rules; applied to a list, it gives the
\* rewritten URLs that are left, in the order of the list.  No rule of the
\* code removes a URL, so every URL of a list is left.
C25_RulesComposeInOrder ==
    trackers.pc = "filtered" =>
        LET rs == trackers.rules IN
        /\ trackers.out_url =
              [i \in DOMAIN trackers.url |-> composed(trackers.url[i], rs, Len(rs))]
        /\ trackers.out_list =
              [i \in DOMAIN trackers.list |-> composed(trackers.list[i], rs, Len(rs))]

\* two rules were applied to a URL and to a list, and the same rules in
\* the other order give another URL
C25_Witness ==
    /\ trackers.pc = "filtered"
    /\ trackers.rules = <<Replace(<<"o">>, <<"n">>), Replace(<<"n">>, <<"m">>)>>
    /\ trackers.url = Some(UrlOld)
    /\ trackers.out_url = Some(<<"m", "x">>)
    /\ composed(UrlOld, <<Replace(<<"n">>, <<"m">>), Replace(<<"o">>, <<"n">>)>>, 2) = UrlNew
    /\ trackers.list = <<UrlKeep, UrlOld>>
    /\ trackers.out_list = <<UrlKeep, (<<"m", "x">>)>>

----------------------------------------------------------------------------
(* The Basic credential verifier on its own: tasks calling                 *)
(* BasicAuthProvider::auth concurrently                                    *)

\* the usernames the tasks present
\* a task calls auth(user, password) and runs to the await on the Mutex, or
\* returns false for a user the configuration does not have
auth_call(t, u, password) ==
    /\ tasks[t].pc = "idle"
    /\ tasks' = [tasks EXCEPT ![t] =
                    [pc |-> IF is_some(find_user(BasicUsers, u)) THEN "lock" ELSE "returned",
                     user |-> u, password |-> password, result |-> FALSE]]
    /\ UNCHANGED <<verify_cache, lock>>

\* self.verify_cache.lock().await returns the guard
auth_lock(t) ==
    /\ tasks[t].pc = "lock"
    /\ is_none(lock)
    /\ lock' = Some(t)
    /\ tasks' = [tasks EXCEPT ![t].pc = "locked"]
    /\ UNCHANGED verify_cache

\* under the guard: the cache lookup, bcrypt::verify and the insert; the
\* guard is dropped at the return
auth_verify(t) ==
    /\ tasks[t].pc = "locked"
    /\ lock = Some(t)
    /\ LET a == auth(BasicUsers, verify_cache, tasks[t].user, tasks[t].password) IN
        /\ verify_cache' = a.cache
        /\ tasks' = [tasks EXCEPT ![t].pc = "returned", ![t].result = a.result]
    /\ lock' = None

\* the caller has taken the result
auth_return(t) ==
    /\ tasks[t].pc = "returned"
    /\ tasks' = [tasks EXCEPT ![t] = IdleTask]
    /\ UNCHANGED <<verify_cache, lock>>

\* what the verifier's tasks leave alone
auth_frame ==
    /\ UNCHANGED <<pc, http, user, acl, request, sent, probe, upstream,
                   response, auth_called, trackers>>
    /\ UNCHANGED config_vars
    /\ UNCHANGED announced
    /\ UNCHANGED client_vars

InitAuth == Init /\ rules = <<>>

NextAuth ==
    \/ \E t \in Tasks, u \in AuthNames, password \in Passwords :
          auth_call(t, u, password) /\ auth_frame
    \/ \E t \in Tasks : auth_lock(t) /\ auth_frame
    \/ \E t \in Tasks : auth_verify(t) /\ auth_frame
    \/ \E t \in Tasks : auth_return(t) /\ auth_frame

SpecAuth == InitAuth /\ [][NextAuth]_vars

\* the configured hash of a username
hash_of(n) == unwrap(find_user(BasicUsers, n)).password

\* every entry of the cache is a configured user's password that bcrypt
\* verifies against the user's hash, and there are no more entries than users
cache_sound ==
    /\ \A n \in DOMAIN verify_cache :
          is_some(verify_cache[n]) =>
              /\ n \in Usernames
              /\ bcrypt_verify(unwrap(verify_cache[n]), hash_of(n)) = "true"
    /\ Cardinality({n \in DOMAIN verify_cache : is_some(verify_cache[n])}) <= Len(BasicUsers)

\* a step removes no entry, changes none, and changes nothing when the call
\* that ends with it returns false
cache_kept ==
    /\ \A n \in DOMAIN verify_cache :
          is_some(verify_cache[n]) => verify_cache'[n] = verify_cache[n]
    /\ \A t \in Tasks :
          (tasks[t].pc /= "returned" /\ tasks'[t].pc = "returned" /\ ~tasks'[t].result)
              => verify_cache' = verify_cache

\* C26: under every interleaving of concurrent calls of auth, every entry
\* of the verify cache maps a configured username to a password that passed
\* bcrypt verification against that user's hash, the cache holds no more
\* entries than there are users, no entry is ever removed, and a call that
\* fails, by a refusal or by an error of bcrypt, leaves the cache as it was.
C26_CacheHoldsVerified == [](cache_sound) /\ [][cache_kept]_vars

\* a password is cached for alice, one task has returned false on a hash
\* bcrypt cannot read, and another task is waiting for the Mutex or holds it
C26_Witness ==
    /\ is_some(verify_cache["alice"])
    /\ \E t \in Tasks : /\ tasks[t].pc = "returned"
                        /\ tasks[t].user = "dave"
                        /\ ~tasks[t].result
    /\ \E t \in Tasks : tasks[t].pc \in {"lock", "locked"}

\* the request presents Basic credentials whose password does not verify
\* against the configured hash of the user, or whose user is not configured,
\* and the handler has resolved its rule
basic_password_refused ==
    /\ pc \notin {"idle", "arrived"}
    /\ is_some(http.credentials.authorization)
    /\ unwrap(http.credentials.authorization).decodes
    /\ LET basic == unwrap(http.credentials.authorization)
           configured == find_user(BasicUsers, basic.username)
       IN  \/ is_none(configured)
           \/ bcrypt_verify(basic.password, unwrap(configured).password) /= "true"

\* the request went upstream as received, with no rule resolved
forwarded_unfiltered == is_none(acl) /\ sent = <<http>>

\* C27: a request whose Basic password fails verification is handled under
\* the anonymous default rule or rejected with nothing sent upstream, and
\* never forwarded upstream without ACL filtering, also when the
\* configuration has no rule with an empty identity set.
C27_RefusedNeverUnfiltered ==
    basic_password_refused =>
        /\ ~forwarded_unfiltered
        /\ \/ is_some(acl) /\ matched_acl.identities = {}
           \/ pc \in {"done", "panicked", "failed"} /\ sent = <<>>

\* the response filter has filtered the upstream's answer to a torrent-get
torrent_get_filtered ==
    /\ torrent_get_answered
    /\ is_some(upstream)
    /\ ~unwrap(upstream).error
    /\ ~relayed_unchanged(unwrap(upstream))

\* C28: for a rule with download_dir = D, every torrent the torrent-get
\* response filter keeps has a downloadDir that equals D or starts with D
\* followed by '/', as the prefix check of the request filter requires of a
\* path: a torrent of a sibling directory whose name starts with D is not
\* returned.
C28_FiltersAgreeOnInside ==
    torrent_get_filtered =>
        \A t \in Range(torrents_in(unwrap(response).body)) :
            LET D == unwrap(matched_acl.download_dir) IN
            t.downloadDir = D \/ starts_with(t.downloadDir, D \o <<"/">>)

\* a torrent-set with a location, or a torrent-set-location, was refused
\* with Forbidden for a location that fails prefix_ok
location_refused ==
    /\ location_call_under_dir
    /\ ~prefix_ok(unwrap(client_request.location), matched_acl)
    /\ pc = "done"
    /\ response = Some(rpc_failure(client_request.tag,
                                   <<"Forbidden", "access denied", 403>>))

\* C29 as stated: when a torrent-set or a torrent-set-location is refused
\* with Forbidden because its location fails the prefix check, nothing has
\* been sent upstream for that call, the target-set probe included.
C29_NothingSentBeforeRefusal ==
    location_refused => sent = <<>> /\ is_none(probe)

\* C29, amended: when a torrent-set or a torrent-set-location is refused
\* with Forbidden because its location fails the prefix check, the request
\* itself has not been sent upstream for that call; the target-set probe
\* has, and only it: it was issued and answered with a list of torrents
\* before the location was checked.
C29_OnlyProbeSentBeforeRefusal ==
    location_refused =>
        /\ Len(sent) = 1
        /\ unwrap(sent[1].body.request) = torrents_rpc_req(client_request.ids)
        /\ probe_answered_torrents

\* a torrent-set-location to a directory outside the rule's download_dir
\* was refused after its probe had been answered
C29_Witness ==
    /\ location_refused
    /\ client_request.method = "torrent-set-location"
    /\ client_request.location = Some(DirOther)
    /\ probe_answered_torrents
    /\ Len(sent) = 1

\* what bcrypt alone answers for a call: true exactly when the user is
\* configured and the password verifies against the configured hash
bcrypt_answer(u, password) ==
    IF is_some(find_user(BasicUsers, u))
    THEN bcrypt_verify(password, hash_of(u)) = "true"
    ELSE FALSE

\* C30: the verify cache is transparent: every call of auth returns what a
\* bcrypt verification of its password against the user's configured hash
\* would return, whatever the cache holds; a password bcrypt accepts is not
\* refused because another accepted password is cached for the user, and an
\* unknown user is always refused.
C30_CacheTransparent ==
    \A t \in Tasks :
        tasks[t].pc = "returned" =>
            tasks[t].result = bcrypt_answer(tasks[t].user, tasks[t].password)

====
